---- MODULE Spec2Model ----
(***************************************************************************)
(* Hibiscus (src-tauri): the filesystem watcher of watcher.rs and the path *)
(* guard of commands/path.rs as a state machine.                           *)
(*                                                                         *)
(* Threads: the command thread, which serves the synchronous commands      *)
(* registered in lib.rs one at a time (watch_workspace, stop_watching,     *)
(* is_watching, get_watched_path), and one background thread per           *)
(* watch_workspace call (std::thread::spawn, never joined).  Threads       *)
(* interleave at every access to the shared AtomicBool, at the sleep of    *)
(* watch_workspace and at every blocking call of the background thread.    *)
(* Time advances in steps of RECV_TIMEOUT_MS.  The code reads the clock    *)
(* only to compare a duration with a constant (the sleep of line 105, the  *)
(* elapsed() of line 218), so the state holds durations, not instants:     *)
(* the time left to sleep and the time elapsed since last_emit.            *)
(***************************************************************************)
EXTENDS Integers, Sequences, FiniteSets, TLC

VARIABLES
    running,        \* WatcherState.running: the shared Arc<AtomicBool>
    current_path,   \* WatcherState.current_path: None or the last root
    cmd,            \* the command thread: where it is inside watch_workspace
    tasks,          \* the spawned background threads, in spawn order
    events,         \* every item a thread has received from its channel, by id
    sink,           \* every window.emit call, in order
    last_call,      \* the last command served
    platform,       \* the build target: cfg(target_os = "windows") or not
    disk,           \* the filesystem: what exists at each path
    call            \* the file command being served, and its position

\* The watcher's state and the file commands' state.
wvars == <<running, current_path, cmd, tasks, events, sink, last_call>>
fsvars == <<platform, disk, call>>
vars == <<wvars, fsvars>>

\* Option<T>: None, or Some(x)
None == <<>>
Some(x) == <<x>>

----------------------------------------------------------------------------
(* Bounds of the model *)

MaxTasks == 2       \* watch_workspace calls (threads spawned) in a run
MaxEvents == 1      \* items received from the channels in a run of Spec
MaxBurst == 3       \* items received from the channel in a run of SessionSpec
MaxStopEvents == 2  \* items received from the channels in a run of StopSpec
MaxPathLen == 4     \* characters of a path given to validate, after its prefix
MaxCalls == 2       \* file commands served in a run of FsSpec
MaxWalkDepth == 4   \* the largest max_depth given to read_dir_recursive in TreeSpec

----------------------------------------------------------------------------
(* Program constants *)

DEBOUNCE_MS == 300
RECV_TIMEOUT_MS == 100
MAX_PATH_DEPTH == 50
MAX_TREE_DEPTH == 20
\* watcher.rs:148  Instant::now() - Duration::from_secs(1)
INITIAL_BACKDATE_MS == 1000

\* A path is the sequence of its characters.  BadByte is a byte that is not
\* valid UTF-8; to_string_lossy renders it as Replacement (U+FFFD).
BadByte == "\\xFF"
Replacement == "U+FFFD"

IGNORED_PATHS == <<
    <<".", "h", "i", "b", "i", "s", "c", "u", "s">>,
    <<".", "g", "i", "t">>,
    <<".", "v", "s", "c", "o", "d", "e">>,
    <<"n", "o", "d", "e", "_", "m", "o", "d", "u", "l", "e", "s">>,
    <<"_", "_", "p", "y", "c", "a", "c", "h", "e", "_", "_">>,
    <<".", "D", "S", "_", "S", "t", "o", "r", "e">>,
    <<"T", "h", "u", "m", "b", "s", ".", "d", "b">> >>

----------------------------------------------------------------------------
(* Strings and paths *)

\* str::contains
Contains(s, pat) ==
    \E i \in 1..(Len(s) - Len(pat) + 1) : SubSeq(s, i, i + Len(pat) - 1) = pat

\* Path::to_string_lossy, of the bytes of a path
Lossy(p) ==
    [i \in 1..Len(p) |-> IF p[i] = BadByte THEN Replacement ELSE p[i]]


\* Path::components().count() on a Unix path: the root directory is one
\* component, a component is a maximal run of characters other than "/"
\* (empty segments are skipped), and every "." is skipped but a leading one
\* of a relative path.
ComponentCount(p) ==
    LET rooted == p # <<>> /\ p[1] = "/"
        starts(i) == p[i] # "/" /\ (i = 1 \/ p[i - 1] = "/")
        isDot(i) == p[i] = "." /\ (i = Len(p) \/ p[i + 1] = "/")
        counted(i) == starts(i) /\ (isDot(i) => i = 1)
    IN  (IF rooted THEN 1 ELSE 0) + Cardinality({i \in 1..Len(p) : counted(i)})

\* "/d/d/.../d" with n segments: n + 1 components.
Nested(n) == [i \in 1..(2 * n) |-> IF i % 2 = 1 THEN "/" ELSE "d"]

\* The state holds a path by its name; Bytes is what the name stands for.
RootA == "/a"
RootB == "/b"
RootTraversal == "/a/../s"
RootDeep == "/d/d/.../d"
PathDoc == "/w/a.md"
PathGit == "/w/.git/c"
PathGitx == "/w/x.gitx"
PathRaw == "/w/b<FF>"
RootW == "/w"
FileDoc == "/w/n.txt"
FileEscape == "/w/../n.txt"
FileWorkspace == "/w/.hibiscus/workspace.json"

Bytes(name) ==
    CASE name = RootA -> <<"/", "a">>
      [] name = RootB -> <<"/", "b">>
      [] name = RootTraversal -> <<"/", "a", "/", ".", ".", "/", "s">>
      [] name = RootDeep -> Nested(MAX_PATH_DEPTH)
      [] name = PathDoc -> <<"/", "w", "/", "a", ".", "m", "d">>
      [] name = PathGit -> <<"/", "w", "/", ".", "g", "i", "t", "/", "c">>
      [] name = PathGitx -> <<"/", "w", "/", "x", ".", "g", "i", "t", "x">>
      [] name = PathRaw -> <<"/", "w", "/", "b", BadByte>>
      [] name = RootW -> <<"/", "w">>
      [] name = FileDoc -> <<"/", "w", "/", "n", ".", "t", "x", "t">>
      [] name = FileEscape -> <<"/", "w", "/", ".", ".", "/", "n", ".", "t", "x", "t">>
      [] name = FileWorkspace ->
            <<"/", "w", "/", ".", "h", "i", "b", "i", "s", "c", "u", "s", "/",
              "w", "o", "r", "k", "s", "p", "a", "c", "e", ".", "j", "s", "o", "n">>

Roots == {RootA, RootB, RootTraversal, RootDeep}

\* Path::to_string_lossy
to_string_lossy(path) == Lossy(Bytes(path))

\* A check for a ".." component between "/" separators, instead of the
\* check of the text.
contains_traversal_component(path_str) ==
    \E i \in 1..(Len(path_str) - 1) :
        /\ path_str[i] = "." /\ path_str[i + 1] = "."
        /\ (i = 1 \/ path_str[i - 1] = "/")
        /\ (i + 1 = Len(path_str) \/ path_str[i + 2] = "/")

\* path.rs line 27: path_str.contains("..")
contains_traversal(path_str) == Contains(path_str, <<".", ".">>)

\* The depth check with >= for >.
depth_exceeded_inclusive(p) == ComponentCount(p) >= MAX_PATH_DEPTH

\* path.rs lines 34-35: path.components().count() > MAX_PATH_DEPTH
depth_exceeded(p) == ComponentCount(p) > MAX_PATH_DEPTH

\* validate_path on the bytes p of a path: Err(PathValidation), or Ok with
\* the path as it was given.
validate(p) ==
    IF contains_traversal(Lossy(p))
    THEN [ok |-> FALSE, err |-> "PathValidation", path |-> None]
    ELSE IF depth_exceeded(p)
    THEN [ok |-> FALSE, err |-> "PathValidation", path |-> None]
    ELSE [ok |-> TRUE, err |-> "none", path |-> Some(p)]

\* validate_path on a path the state holds by name
validate_path(path) ==
    LET r == validate(Bytes(path))
    IN  [ok |-> r.ok, err |-> r.err, path |-> IF r.ok THEN Some(path) ELSE None]

----------------------------------------------------------------------------
(* Filesystem events *)

\* What a channel delivers: Ok(event) (ok = TRUE), with a kind of
\* notify::EventKind, or Err(e) of the backend (ok = FALSE, the other fields
\* unused).
ChannelItems == {
    [ok |-> FALSE, kind |-> "Other", paths |-> <<>>],
    [ok |-> TRUE, kind |-> "Access", paths |-> <<PathDoc>>],
    [ok |-> TRUE, kind |-> "Other", paths |-> <<PathDoc>>],
    [ok |-> TRUE, kind |-> "Modify", paths |-> <<PathGit, PathGitx>>],
    [ok |-> TRUE, kind |-> "Modify", paths |-> <<PathGit, PathRaw, PathDoc>>],
    [ok |-> TRUE, kind |-> "Create", paths |-> <<PathDoc>>],
    [ok |-> TRUE, kind |-> "Remove", paths |-> <<>>] }

should_ignore_path(path) ==
    \E i \in 1..Len(IGNORED_PATHS) : Contains(to_string_lossy(path), IGNORED_PATHS[i])

\* The filter decides only whether the event is dropped; the paths are not
\* filtered one by one.
relevant_paths_unfiltered(event) ==
    IF \E i \in 1..Len(event.paths) : ~should_ignore_path(event.paths[i])
    THEN event.paths
    ELSE <<>>

relevant_paths(event) ==
    SelectSeq(event.paths, LAMBDA p : ~should_ignore_path(p))

path_strings(paths) ==
    [i \in 1..Len(paths) |-> to_string_lossy(paths[i])]

\* Durations saturate one clock step above the largest constant they are
\* compared with.
Saturated(d) ==
    IF d > DEBOUNCE_MS + RECV_TIMEOUT_MS THEN DEBOUNCE_MS + RECV_TIMEOUT_MS ELSE d

\* The comparison of line 218 with <= for <.
TooSoonInclusive(elapsed) == elapsed <= DEBOUNCE_MS

\* last_emit.elapsed() < debounce_duration
TooSoon(elapsed) == elapsed < DEBOUNCE_MS

RECURSIVE Flatten(_)
Flatten(ss) ==
    IF ss = <<>> THEN <<>>
    ELSE IF Len(ss) = 1 THEN ss[1]
    ELSE Flatten(SubSeq(ss, 1, Len(ss) \div 2))
         \o Flatten(SubSeq(ss, (Len(ss) \div 2) + 1, Len(ss)))

\* A batching debounce: the paths of the events suppressed so far are merged
\* into the next emission.
process_event_batched(event, elapsed) ==
    LET held == SelectSeq(events, LAMBDA e : e.outcome = "debounced")
        pending == Flatten([i \in 1..Len(held) |-> relevant_paths(held[i].item)])
    IN  IF event.kind \in {"Access", "Other"}
        THEN [emit |-> FALSE, elapsed |-> elapsed, payload |-> <<>>, outcome |-> "kind"]
        ELSE IF relevant_paths(event) = <<>>
        THEN [emit |-> FALSE, elapsed |-> elapsed, payload |-> <<>>, outcome |-> "ignored"]
        ELSE IF TooSoon(elapsed)
        THEN [emit |-> FALSE, elapsed |-> elapsed, payload |-> <<>>,
              outcome |-> "debounced"]
        ELSE [emit |-> TRUE, elapsed |-> 0,
              payload |-> path_strings(pending \o relevant_paths(event)),
              outcome |-> "emitted"]

\* process_event up to the emit call: what it decides for `event` when
\* `elapsed` has passed since the thread's last_emit.  emit = TRUE:
\* last_emit is set to the present (line 224) and window.emit is called with
\* `payload`; the result of that call is the sink's.
process_event(event, elapsed) ==
    IF event.kind \in {"Access", "Other"}
    THEN [emit |-> FALSE, elapsed |-> elapsed, payload |-> <<>>, outcome |-> "kind"]
    ELSE IF relevant_paths(event) = <<>>
    THEN [emit |-> FALSE, elapsed |-> elapsed, payload |-> <<>>, outcome |-> "ignored"]
    ELSE IF TooSoon(elapsed)
    THEN [emit |-> FALSE, elapsed |-> elapsed, payload |-> <<>>, outcome |-> "debounced"]
    ELSE [emit |-> TRUE, elapsed |-> 0,
          payload |-> path_strings(relevant_paths(event)), outcome |-> "emitted"]

----------------------------------------------------------------------------
(* State *)

\* The command thread.  superseded: the threads that held an attached
\* monitor when the watch_workspace in progress was called.
Idle == [pc |-> "idle", path |-> "", sleep_left |-> 0, superseded |-> {}]

\* A background thread.  elapsed: the time since its last_emit.  quiet: the
\* time since its last fs-changed emit call, None before the first one.
NewTask(path) ==
    [root |-> path, pc |-> "create", attached |-> FALSE, elapsed |-> 0,
     quiet |-> None, exit_by |-> "none"]

Tasks == 1..Len(tasks)

Notification(name, t, id, payload) ==
    [name |-> name, task |-> t, id |-> id, payload |-> payload]

\* The record of an item a thread took from its channel: what became of it,
\* the command that had returned last, and the threads spawned so far.
Received(t, item, what) ==
    [item |-> item, task |-> t, quiet |-> tasks[t].quiet, outcome |-> what,
     after |-> last_call, started |-> Len(tasks)]

\* get_watched_path without the check of the flag.
get_watched_path_unguarded == current_path

\* is_watching
is_watching == running

\* get_watched_path
get_watched_path == IF running THEN current_path ELSE None

\* No file command is being served.
NoCall == [pc |-> "idle"]

\* A filesystem with nothing in it.
EmptyDisk == [p \in {} |-> None]

\* The file commands at rest: the watcher does not use them.
FsIdle ==
    /\ platform = "unix"
    /\ disk = EmptyDisk
    /\ call = NoCall

\* WatcherState::default()
WatcherInit ==
    /\ running = FALSE
    /\ current_path = None
    /\ cmd = Idle
    /\ tasks = <<>>
    /\ events = <<>>
    /\ sink = <<>>
    /\ last_call = "none"

Init == WatcherInit /\ FsIdle

----------------------------------------------------------------------------
(* The command thread *)

\* watch_workspace, line 102 and the start of the sleep of line 105
watch_workspace_stop(path) ==
    /\ cmd.pc = "idle"
    /\ Len(tasks) < MaxTasks
    /\ running' = FALSE
    /\ cmd' = [pc |-> "sleep", path |-> path, sleep_left |-> RECV_TIMEOUT_MS * 2,
               superseded |-> {t \in Tasks : tasks[t].attached}]
    /\ last_call' = "watch_workspace"
    /\ UNCHANGED <<current_path, tasks, events, sink>>
    /\ UNCHANGED fsvars

\* watch_workspace, the end of the sleep to the spawn: lines 105-119
watch_workspace_spawn ==
    /\ cmd.pc = "sleep"
    /\ cmd.sleep_left = 0
    /\ current_path' = Some(cmd.path)
    /\ running' = TRUE
    /\ tasks' = Append(tasks, NewTask(cmd.path))
    /\ cmd' = Idle
    /\ UNCHANGED <<events, sink, last_call>>
    /\ UNCHANGED fsvars

\* stop_watching that flips the flag instead of clearing it.
stop_watching_toggle ==
    /\ cmd.pc = "idle"
    /\ running' = ~running
    /\ last_call' = "stop_watching"
    /\ UNCHANGED <<current_path, cmd, tasks, events, sink>>
    /\ UNCHANGED fsvars

stop_watching ==
    /\ cmd.pc = "idle"
    /\ running' = FALSE
    /\ last_call' = "stop_watching"
    /\ UNCHANGED <<current_path, cmd, tasks, events, sink>>
    /\ UNCHANGED fsvars

----------------------------------------------------------------------------
(* A background thread *)

\* The fatal exit that reports the error and tries again instead of
\* returning.
FatalRetry(t) ==
    /\ running' = FALSE
    /\ sink' = Append(sink, Notification("fs-watcher-error", t, 0, <<>>))
    /\ tasks' = [tasks EXCEPT ![t].pc = "create", ![t].attached = FALSE]

\* lines 128-133 and 139-142: the fatal exit.  The result of the emit is
\* discarded (let _ =).
Fatal(t) ==
    /\ running' = FALSE
    /\ sink' = Append(sink, Notification("fs-watcher-error", t, 0, <<>>))
    /\ tasks' = [tasks EXCEPT ![t].pc = "failed", ![t].attached = FALSE]

\* line 126: notify::recommended_watcher(tx)
create_watcher(t) ==
    /\ t \in Tasks
    /\ tasks[t].pc = "create"
    /\ \/ /\ tasks' = [tasks EXCEPT ![t].pc = "watch"]
          /\ UNCHANGED <<running, sink>>
       \/ Fatal(t)
    /\ UNCHANGED <<current_path, cmd, events, last_call>>
    /\ UNCHANGED fsvars

\* lines 138-148: watcher.watch(root, Recursive), then the first last_emit
watch_root(t) ==
    /\ t \in Tasks
    /\ tasks[t].pc = "watch"
    /\ \/ /\ tasks' = [tasks EXCEPT ![t].pc = "check", ![t].attached = TRUE,
                                    ![t].elapsed = Saturated(INITIAL_BACKDATE_MS)]
          /\ UNCHANGED <<running, sink>>
       \/ Fatal(t)
    /\ UNCHANGED <<current_path, cmd, events, last_call>>
    /\ UNCHANGED fsvars

\* The flag read once before the loop instead of at every iteration.
LoopFlagCached == TRUE

\* The value the loop condition of line 151 sees.
LoopFlag == running

\* line 151, and lines 177-178 when the flag is false
loop_check(t) ==
    /\ t \in Tasks
    /\ tasks[t].pc = "check"
    /\ tasks' = IF LoopFlag
                THEN [tasks EXCEPT ![t].pc = "recv"]
                ELSE [tasks EXCEPT ![t].pc = "done", ![t].attached = FALSE,
                                   ![t].exit_by = "flag"]
    /\ UNCHANGED <<running, current_path, cmd, events, sink, last_call>>
    /\ UNCHANGED fsvars

\* line 153, Ok(Ok(event)): process_event, its emit included.  The item is
\* one the thread's own backend sent; the result of the emit is the sink's.
recv_event(t, item, quota) ==
    /\ t \in Tasks
    /\ tasks[t].pc = "recv"
    /\ Len(events) < quota
    /\ item.ok
    /\ LET r == process_event(item, tasks[t].elapsed)
       IN  IF r.emit
           THEN /\ tasks' = [tasks EXCEPT ![t].pc = "check", ![t].elapsed = r.elapsed,
                                          ![t].quiet = Some(0)]
                /\ sink' = Append(sink,
                       Notification("fs-changed", t, Len(events) + 1, r.payload))
                /\ \E delivered \in BOOLEAN :
                     events' = Append(events, Received(t, item,
                         IF delivered THEN "emitted" ELSE "emit_failed"))
           ELSE /\ tasks' = [tasks EXCEPT ![t].pc = "check", ![t].elapsed = r.elapsed]
                /\ sink' = sink
                /\ events' = Append(events, Received(t, item, r.outcome))
    /\ UNCHANGED <<running, current_path, cmd, last_call>>
    /\ UNCHANGED fsvars

\* A loop that ends at the first error of the backend.
recv_error_exit(t, item, quota) ==
    /\ t \in Tasks
    /\ tasks[t].pc = "recv"
    /\ Len(events) < quota
    /\ ~item.ok
    /\ tasks' = [tasks EXCEPT ![t].pc = "done", ![t].attached = FALSE,
                              ![t].exit_by = "error"]
    /\ events' = Append(events, Received(t, item, "error"))
    /\ UNCHANGED <<running, current_path, cmd, sink, last_call>>
    /\ UNCHANGED fsvars

\* line 160, Ok(Err(e)): logged
recv_error(t, item, quota) ==
    /\ t \in Tasks
    /\ tasks[t].pc = "recv"
    /\ Len(events) < quota
    /\ ~item.ok
    /\ tasks' = [tasks EXCEPT ![t].pc = "check"]
    /\ events' = Append(events, Received(t, item, "error"))
    /\ UNCHANGED <<running, current_path, cmd, sink, last_call>>
    /\ UNCHANGED fsvars

\* line 165, Err(Timeout)
recv_timeout(t) ==
    /\ t \in Tasks
    /\ tasks[t].pc = "recv"
    /\ tasks' = [tasks EXCEPT ![t].pc = "check"]
    /\ UNCHANGED <<running, current_path, cmd, events, sink, last_call>>
    /\ UNCHANGED fsvars

\* line 168, Err(Disconnected): break, then lines 177-178
recv_disconnected(t) ==
    /\ t \in Tasks
    /\ tasks[t].pc = "recv"
    /\ tasks' = [tasks EXCEPT ![t].pc = "done", ![t].attached = FALSE,
                              ![t].exit_by = "disconnected"]
    /\ UNCHANGED <<running, current_path, cmd, events, sink, last_call>>
    /\ UNCHANGED fsvars

\* One step of thread t; quota bounds the items received in the run.
TaskStep(t, quota) ==
    \/ create_watcher(t)
    \/ watch_root(t)
    \/ loop_check(t)
    \/ \E item \in ChannelItems : recv_event(t, item, quota)
    \/ \E item \in ChannelItems : recv_error(t, item, quota)
    \/ recv_timeout(t)
    \/ recv_disconnected(t)

----------------------------------------------------------------------------
(* The clock *)

Older(d) == Saturated(d + RECV_TIMEOUT_MS)

\* RECV_TIMEOUT_MS pass: for the sleep of watch_workspace and for the
\* durations of the threads that are in their loop.
Tick ==
    /\ cmd' = [cmd EXCEPT !.sleep_left =
                  IF @ >= RECV_TIMEOUT_MS THEN @ - RECV_TIMEOUT_MS ELSE 0]
    /\ tasks' = [t \in Tasks |->
                  IF tasks[t].attached
                  THEN [tasks[t] EXCEPT !.elapsed = Older(@),
                                        !.quiet = IF @ = None THEN None
                                                  ELSE Some(Older(@[1]))]
                  ELSE tasks[t]]
    /\ UNCHANGED <<running, current_path, events, sink, last_call>>
    /\ UNCHANGED fsvars

----------------------------------------------------------------------------

Next ==
    \/ \E path \in Roots : watch_workspace_stop(path)
    \/ watch_workspace_spawn
    \/ stop_watching
    \/ \E t \in 1..MaxTasks : create_watcher(t)
    \/ \E t \in 1..MaxTasks : watch_root(t)
    \/ \E t \in 1..MaxTasks : loop_check(t)
    \/ \E t \in 1..MaxTasks, item \in ChannelItems : recv_event(t, item, MaxEvents)
    \/ \E t \in 1..MaxTasks, item \in ChannelItems : recv_error(t, item, MaxEvents)
    \/ \E t \in 1..MaxTasks : recv_timeout(t)
    \/ \E t \in 1..MaxTasks : recv_disconnected(t)
    \/ Tick

Spec == Init /\ [][Next]_vars

\* Every spawned thread that can take a step eventually takes one.
FairSpec == Spec /\ \A t \in 1..MaxTasks : WF_vars(TaskStep(t, MaxEvents))

\* The commands and the threads of Spec, with room for each of two
\* threads to receive an item; the items are one event that is emitted, one
\* that is dropped by its kind, and one error of the backend.
StopRoots == {RootA, RootB}

StopItems == {item \in ChannelItems :
                 item.paths \in {<<>>, <<PathDoc>>}
                   /\ item.kind \in {"Other", "Access", "Create"}}

StopNext ==
    \/ \E path \in StopRoots : watch_workspace_stop(path)
    \/ watch_workspace_spawn
    \/ stop_watching
    \/ \E t \in 1..MaxTasks : create_watcher(t)
    \/ \E t \in 1..MaxTasks : watch_root(t)
    \/ \E t \in 1..MaxTasks : loop_check(t)
    \/ \E t \in 1..MaxTasks, item \in StopItems : recv_event(t, item, MaxStopEvents)
    \/ \E t \in 1..MaxTasks, item \in StopItems : recv_error(t, item, MaxStopEvents)
    \/ \E t \in 1..MaxTasks : recv_timeout(t)
    \/ \E t \in 1..MaxTasks : recv_disconnected(t)
    \/ Tick

StopSpec == Init /\ [][StopNext]_vars

\* One watch session: the state watch_workspace(RootA) leaves, and no
\* further watch_workspace.
SessionInit ==
    /\ running = TRUE
    /\ current_path = Some(RootA)
    /\ cmd = Idle
    /\ tasks = <<NewTask(RootA)>>
    /\ events = <<>>
    /\ sink = <<>>
    /\ last_call = "watch_workspace"
    /\ FsIdle

SessionNext ==
    \/ stop_watching
    \/ create_watcher(1)
    \/ watch_root(1)
    \/ loop_check(1)
    \/ \E item \in ChannelItems : recv_event(1, item, MaxBurst)
    \/ \E item \in ChannelItems : recv_error(1, item, MaxBurst)
    \/ recv_timeout(1)
    \/ recv_disconnected(1)
    \/ Tick

SessionSpec == SessionInit /\ [][SessionNext]_vars

----------------------------------------------------------------------------
(* Paths and the filesystem of the file commands *)

\* The index of the last "/" of p, 0 when it has none.
LastSep(p) ==
    LET seps == {i \in 1..Len(p) : p[i] = "/"}
    IN  IF seps = {} THEN 0 ELSE CHOOSE i \in seps : \A j \in seps : j <= i

\* Path::parent (of a path written without a trailing separator)
parent(p) ==
    IF p = <<>> \/ p = <<"/">> THEN None
    ELSE IF LastSep(p) = 0 THEN Some(<<>>)
    ELSE IF LastSep(p) = 1 THEN Some(<<"/">>)
    ELSE Some(SubSeq(p, 1, LastSep(p) - 1))

\* Path::file_name
file_name(p) ==
    LET name == SubSeq(p, LastSep(p) + 1, Len(p))
    IN  IF name = <<>> \/ name = <<".", ".">> THEN None ELSE Some(name)

\* Path::with_file_name
with_file_name(p, name) ==
    IF file_name(p) = None
    THEN (IF p = <<>> \/ p[Len(p)] = "/" THEN p ELSE Append(p, "/")) \o name
    ELSE SubSeq(p, 1, LastSep(p)) \o name

\* Path::with_extension: the extension is what follows the last "." of the
\* file name, unless the name begins with that ".".
with_extension(p, ext) ==
    IF file_name(p) = None THEN p
    ELSE LET name == file_name(p)[1]
             dots == {i \in 2..Len(name) : name[i] = "."}
             stem == IF dots = {} THEN name
                     ELSE SubSeq(name, 1, (CHOOSE i \in dots : \A j \in dots : j <= i) - 1)
         IN  with_file_name(p, stem \o <<".">> \o ext)

\* Path::join of a relative component
join(p, name) ==
    (IF p = <<>> \/ p[Len(p)] = "/" THEN p ELSE Append(p, "/")) \o name

SaveSuffix == <<".", "h", "i", "b", "i", "s", "c", "u", "s", "-", "s", "a", "v", "e", "~">>

\* files.rs lines 96-102: the temporary sibling of write_text_file
save_temp_path(p) ==
    with_file_name(p,
        (IF file_name(p) = None THEN <<>> ELSE Lossy(file_name(p)[1])) \o SaveSuffix)

\* workspace.rs line 82, calendar.rs line 60
json_temp_path(p) == with_extension(p, <<"j", "s", "o", "n", ".", "t", "m", "p">>)

\* The directories create_dir_all(dir) makes sure of, the root excepted.
Ancestors(dir) ==
    {SubSeq(dir, 1, k) : k \in {i \in 2..Len(dir) : i = Len(dir) \/ dir[i + 1] = "/"}}

\* What the disk holds at a path
Dir == [kind |-> "dir"]
File(data, synced) == [kind |-> "file", data |-> data, synced |-> synced]

Put(d, p, entry) == [q \in (DOMAIN d) \cup {p} |-> IF q = p THEN entry ELSE d[q]]
Del(d, p) == [q \in (DOMAIN d) \ {p} |-> d[q]]

\* Path::exists, Path::is_file, Path::is_dir
exists(p) == p \in DOMAIN disk
is_file(p) == exists(p) /\ disk[p].kind = "file"
is_dir(p) == exists(p) /\ disk[p].kind = "dir"

\* str::as_bytes: the UTF-8 encoding, two bytes for the one character of the
\* model that is not ASCII.
Utf8(c) == IF c = "e'" THEN <<"C3", "A9">> ELSE <<c>>
as_bytes(str) == Flatten([i \in 1..Len(str) |-> Utf8(str[i])])

\* String::from_utf8 (read_to_string): None when the bytes are not UTF-8
from_utf8(bytes) ==
    LET valid == \A i \in 1..Len(bytes) :
                    /\ bytes[i] # BadByte
                    /\ bytes[i] = "C3" => (i < Len(bytes) /\ bytes[i + 1] = "A9")
                    /\ bytes[i] = "A9" => (i > 1 /\ bytes[i - 1] = "C3")
        first == SelectSeq([i \in 1..Len(bytes) |-> i], LAMBDA i : bytes[i] # "A9")
    IN  IF valid
        THEN Some([k \in 1..Len(first) |->
                      IF bytes[first[k]] = "C3" THEN "e'" ELSE bytes[first[k]]])
        ELSE None

----------------------------------------------------------------------------
(* JSON: serde_json::Value, its text, and the derived Serialize and
   Deserialize of workspace.rs *)

\* A JSON tree, as the text has it: the members of an object are in the
\* order of the text.
JNull == [t |-> "null"]
JBool(b) == [t |-> "bool", v |-> b]
JNum(n) == [t |-> "num", v |-> n]
JStr(str) == [t |-> "str", v |-> str]
JArr(items) == [t |-> "arr", v |-> items]
JObj(members) == [t |-> "obj", v |-> members]

DigitChars == <<"0", "1", "2", "3", "4", "5", "6", "7", "8", "9">>

RECURSIVE Digits(_)
Digits(n) == IF n < 10 THEN <<DigitChars[n + 1]>>
             ELSE Digits(n \div 10) \o <<DigitChars[(n % 10) + 1]>>

DigitValue(c) == (CHOOSE i \in 1..10 : DigitChars[i] = c) - 1

\* Escapes that leave the backslash as it is.
EscapedQuoteOnly(c) ==
    CASE c = "\"" -> <<"\\", "\"">>
      [] c = "\n" -> <<"\\", "n">>
      [] OTHER -> <<c>>

\* The escapes of a JSON string: the quote, the backslash and the newline.
Escaped(c) ==
    CASE c = "\"" -> <<"\\", "\"">>
      [] c = "\\" -> <<"\\", "\\">>
      [] c = "\n" -> <<"\\", "n">>
      [] OTHER -> <<c>>

Quoted(str) == <<"\"">> \o Flatten([i \in 1..Len(str) |-> Escaped(str[i])]) \o <<"\"">>

Indent(level) == [i \in 1..(2 * level) |-> " "]

\* serde_json::to_string_pretty: two spaces a level, one item a line
RECURSIVE Pretty(_, _)
Pretty(j, level) ==
    CASE j.t = "null" -> <<"n", "u", "l", "l">>
      [] j.t = "bool" -> IF j.v THEN <<"t", "r", "u", "e">> ELSE <<"f", "a", "l", "s", "e">>
      [] j.t = "num" -> Digits(j.v)
      [] j.t = "str" -> Quoted(j.v)
      [] j.t = "arr" ->
            IF j.v = <<>> THEN <<"[", "]">>
            ELSE <<"[">>
                 \o Flatten([i \in 1..Len(j.v) |->
                        (IF i = 1 THEN <<"\n">> ELSE <<",", "\n">>)
                        \o Indent(level + 1) \o Pretty(j.v[i], level + 1)])
                 \o <<"\n">> \o Indent(level) \o <<"]">>
      [] j.t = "obj" ->
            IF j.v = <<>> THEN <<"{", "}">>
            ELSE <<"{">>
                 \o Flatten([i \in 1..Len(j.v) |->
                        (IF i = 1 THEN <<"\n">> ELSE <<",", "\n">>)
                        \o Indent(level + 1) \o Quoted(j.v[i][1]) \o <<":", " ">>
                        \o Pretty(j.v[i][2], level + 1)])
                 \o <<"\n">> \o Indent(level) \o <<"}">>

\* The parser of serde_json::from_str: the tree read from position i of
\* text s and the position after it, or a failure.  Numbers are the
\* non-negative integers.
ParseFail == [ok |-> FALSE, val |-> JNull, next |-> 0]
Parsed(val, next) == [ok |-> TRUE, val |-> val, next |-> next]

RECURSIVE SkipWs(_, _)
SkipWs(s, i) == IF i <= Len(s) /\ s[i] \in {" ", "\n"} THEN SkipWs(s, i + 1) ELSE i

ParseLiteral(s, i, word, val) ==
    IF i + Len(word) - 1 <= Len(s) /\ SubSeq(s, i, i + Len(word) - 1) = word
    THEN Parsed(val, i + Len(word))
    ELSE ParseFail

RECURSIVE ParseDigits(_, _, _)
ParseDigits(s, i, n) ==
    IF i <= Len(s) /\ \E k \in 1..10 : DigitChars[k] = s[i]
    THEN ParseDigits(s, i + 1, 10 * n + DigitValue(s[i]))
    ELSE Parsed(JNum(n), i)

\* After the opening quote: the characters up to the closing quote
RECURSIVE ParseString(_, _, _)
ParseString(s, i, acc) ==
    IF i > Len(s) THEN ParseFail
    ELSE IF s[i] = "\"" THEN Parsed(JStr(acc), i + 1)
    ELSE IF s[i] = "\\"
    THEN IF i + 1 > Len(s) THEN ParseFail
         ELSE IF s[i + 1] \in {"\"", "\\"} THEN ParseString(s, i + 2, Append(acc, s[i + 1]))
         ELSE IF s[i + 1] = "n" THEN ParseString(s, i + 2, Append(acc, "\n"))
         ELSE ParseFail
    ELSE IF s[i] = "\n" THEN ParseFail
    ELSE ParseString(s, i + 1, Append(acc, s[i]))

RECURSIVE ParseValue(_, _)
RECURSIVE ParseElements(_, _, _)
RECURSIVE ParseMembers(_, _, _)

ParseValue(s, start) ==
    LET i == SkipWs(s, start)
    IN  IF i > Len(s) THEN ParseFail
        ELSE CASE s[i] = "n" -> ParseLiteral(s, i, <<"n", "u", "l", "l">>, JNull)
               [] s[i] = "t" -> ParseLiteral(s, i, <<"t", "r", "u", "e">>, JBool(TRUE))
               [] s[i] = "f" -> ParseLiteral(s, i, <<"f", "a", "l", "s", "e">>, JBool(FALSE))
               [] s[i] = "\"" -> ParseString(s, i + 1, <<>>)
               [] s[i] = "[" ->
                    LET j == SkipWs(s, i + 1)
                    IN  IF j <= Len(s) /\ s[j] = "]" THEN Parsed(JArr(<<>>), j + 1)
                        ELSE ParseElements(s, j, <<>>)
               [] s[i] = "{" ->
                    LET j == SkipWs(s, i + 1)
                    IN  IF j <= Len(s) /\ s[j] = "}" THEN Parsed(JObj(<<>>), j + 1)
                        ELSE ParseMembers(s, j, <<>>)
               [] \E k \in 1..10 : DigitChars[k] = s[i] ->
                    IF s[i] = "0" /\ i + 1 <= Len(s) /\ \E k \in 1..10 : DigitChars[k] = s[i + 1]
                    THEN ParseFail
                    ELSE ParseDigits(s, i, 0)
               [] OTHER -> ParseFail

ParseElements(s, i, acc) ==
    LET r == ParseValue(s, i)
        j == SkipWs(s, r.next)
    IN  IF ~r.ok \/ j > Len(s) THEN ParseFail
        ELSE IF s[j] = "," THEN ParseElements(s, j + 1, Append(acc, r.val))
        ELSE IF s[j] = "]" THEN Parsed(JArr(Append(acc, r.val)), j + 1)
        ELSE ParseFail

ParseMembers(s, start, acc) ==
    LET i == SkipWs(s, start)
        key == IF i <= Len(s) /\ s[i] = "\"" THEN ParseString(s, i + 1, <<>>) ELSE ParseFail
        colon == SkipWs(s, key.next)
        r == IF key.ok /\ colon <= Len(s) /\ s[colon] = ":"
             THEN ParseValue(s, colon + 1) ELSE ParseFail
        j == SkipWs(s, r.next)
    IN  IF ~r.ok \/ j > Len(s) THEN ParseFail
        ELSE IF s[j] = "," THEN ParseMembers(s, j + 1, Append(acc, <<key.val.v, r.val>>))
        ELSE IF s[j] = "}" THEN Parsed(JObj(Append(acc, <<key.val.v, r.val>>)), j + 1)
        ELSE ParseFail

\* The whole text is one JSON value.
ParseText(s) ==
    LET r == ParseValue(s, 1)
    IN  IF r.ok /\ SkipWs(s, r.next) = Len(s) + 1 THEN r ELSE ParseFail

----------------------------------------------------------------------------
(* The derived Serialize and Deserialize of workspace.rs, and
   serde_json::Value *)

\* The characters in the order of their codes
CharOrder ==
    <<"\n", " ", "!", "\"", "#", "$", "%", "&", "(", ")", "*", "+",
      ",", "-", ".", "/", "0", "1", "2", "3", "4", "5", "6", "7", "8",
      "9", ":", ";", "<", "=", ">", "?", "@", "A", "B", "C", "D", "E",
      "F", "G", "H", "I", "J", "K", "L", "M", "N", "O", "P", "Q", "R",
      "S", "T", "U", "V", "W", "X", "Y", "Z", "[", "\\", "]", "^", "_",
      "a", "b", "c", "d", "e", "f", "g", "h", "i", "j", "k", "l",
      "m", "n", "o", "p", "q", "r", "s", "t", "u", "v", "w", "x", "y",
      "z", "{", "|", "}", "~", "e'", "C3", "A9", "\\xFF", "U+FFFD">>

Code(c) == CHOOSE i \in 1..Len(CharOrder) : CharOrder[i] = c

\* The order of the keys of a serde_json::Map (a BTreeMap)
KeyLess(a, b) ==
    \E i \in 1..(Len(b)) :
        /\ \A k \in 1..(i - 1) : k <= Len(a) /\ a[k] = b[k]
        /\ (i > Len(a) \/ (i <= Len(a) /\ Code(a[i]) < Code(b[i])))
        /\ i - 1 <= Len(a)

\* A map after the insertion of (key, val): the keys stay sorted, a key
\* already there gets the new value.
Inserted(pairs, key, val) ==
    LET less == SelectSeq(pairs, LAMBDA p : KeyLess(p[1], key))
        more == SelectSeq(pairs, LAMBDA p : KeyLess(key, p[1]))
    IN  less \o <<(<<key, val>>)>> \o more

RECURSIVE Collected(_, _)
Collected(pairs, acc) ==
    IF pairs = <<>> THEN acc
    ELSE Collected(Tail(pairs), Inserted(acc, Head(pairs)[1], Head(pairs)[2]))

\* The types of workspace.rs
TString == [k |-> "String"]
TU32 == [k |-> "u32"]
TValue == [k |-> "Value"]
TNodeType == [k |-> "NodeType"]
TOption(of) == [k |-> "Option", of |-> of]
TVec(of) == [k |-> "Vec", of |-> of]
TMap(of) == [k |-> "HashMap", of |-> of]
TStruct(name) == [k |-> "struct", name |-> name]

\* The fields of the structs, in the order of their declaration, with the
\* names serde gives them
Fields(name) ==
    CASE name = "WorkspaceFile" ->
              << <<<<"s", "c", "h", "e", "m", "a", "_", "v", "e", "r", "s", "i", "o", "n">>, TString>>,
                 <<<<"w", "o", "r", "k", "s", "p", "a", "c", "e">>, TStruct("WorkspaceInfo")>>,
                 <<<<"s", "e", "t", "t", "i", "n", "g", "s">>, TOption(TValue)>>,
                 <<<<"t", "r", "e", "e">>, TVec(TStruct("Node"))>>,
                 <<<<"s", "e", "s", "s", "i", "o", "n">>, TOption(TStruct("SessionState"))>> >>
      [] name = "WorkspaceInfo" ->
              << <<<<"i", "d">>, TString>>,
                 <<<<"n", "a", "m", "e">>, TString>>,
                 <<<<"r", "o", "o", "t">>, TString>>,
                 <<<<"c", "r", "e", "a", "t", "e", "d", "_", "a", "t">>, TOption(TString)>>,
                 <<<<"u", "p", "d", "a", "t", "e", "d", "_", "a", "t">>, TOption(TString)>> >>
      [] name = "Node" ->
              << <<<<"i", "d">>, TString>>,
                 <<<<"n", "a", "m", "e">>, TString>>,
                 <<<<"t", "y", "p", "e">>, TNodeType>>,
                 <<<<"p", "a", "t", "h">>, TOption(TString)>>,
                 <<<<"c", "h", "i", "l", "d", "r", "e", "n">>, TOption(TVec(TStruct("Node")))>>,
                 <<<<"m", "e", "t", "a">>, TOption(TValue)>> >>
      [] name = "CursorPosition" ->
              << <<<<"l", "i", "n", "e">>, TU32>>,
                 <<<<"c", "o", "l", "u", "m", "n">>, TU32>> >>
      [] name = "SessionState" ->
              << <<<<"o", "p", "e", "n", "_", "n", "o", "d", "e", "s">>, TOption(TVec(TString))>>,
                 <<<<"a", "c", "t", "i", "v", "e", "_", "n", "o", "d", "e">>, TOption(TString)>>,
                 <<<<"c", "u", "r", "s", "o", "r">>, TOption(TMap(TStruct("CursorPosition")))>> >>

\* serde(rename_all = "lowercase") of NodeType
NodeTypeName(x) == IF x = "File" THEN <<"f", "i", "l", "e">> ELSE <<"f", "o", "l", "d", "e", "r">>

\* Serialize: a value x of type ty as a JSON tree.  A struct is an array of
\* its fields' values, an Option is None or Some(x), a HashMap is its
\* entries in the order of their keys.
RECURSIVE Ser(_, _)
Ser(ty, x) ==
    CASE ty.k = "String" -> JStr(x)
      [] ty.k = "u32" -> JNum(x)
      [] ty.k = "Value" -> x
      [] ty.k = "NodeType" -> JStr(NodeTypeName(x))
      [] ty.k = "Option" -> IF x = None THEN JNull ELSE Ser(ty.of, x[1])
      [] ty.k = "Vec" -> JArr([i \in 1..Len(x) |-> Ser(ty.of, x[i])])
      [] ty.k = "HashMap" -> JObj([i \in 1..Len(x) |-> <<x[i][1], Ser(ty.of, x[i][2])>>])
      [] ty.k = "struct" ->
            JObj([i \in 1..Len(x) |->
                     <<Fields(ty.name)[i][1], Ser(Fields(ty.name)[i][2], x[i])>>])

DeFail == [ok |-> FALSE, val |-> <<>>]
DeOk(val) == [ok |-> TRUE, val |-> val]

\* Deserialize: the value of type ty a JSON tree stands for, or an error.
\* Every number of the model fits a u32.
\* A null is None for an Option, a missing field is None for an Option and
\* an error for the rest, an unknown field is ignored, a field given twice
\* is an error; a Value keeps everything, the last of two equal keys.
RECURSIVE De(_, _)
De(ty, j) ==
    CASE ty.k = "String" -> IF j.t = "str" THEN DeOk(j.v) ELSE DeFail
      [] ty.k = "u32" -> IF j.t = "num" THEN DeOk(j.v) ELSE DeFail
      [] ty.k = "Value" ->
            IF j.t = "arr"
            THEN DeOk(JArr([i \in 1..Len(j.v) |-> De(ty, j.v[i]).val]))
            ELSE IF j.t = "obj"
            THEN DeOk(JObj(Collected(
                     [i \in 1..Len(j.v) |-> <<j.v[i][1], De(ty, j.v[i][2]).val>>], <<>>)))
            ELSE DeOk(j)
      [] ty.k = "NodeType" ->
            IF j.t = "str" /\ j.v = NodeTypeName("File") THEN DeOk("File")
            ELSE IF j.t = "str" /\ j.v = NodeTypeName("Folder") THEN DeOk("Folder")
            ELSE DeFail
      [] ty.k = "Option" ->
            IF j.t = "null" THEN DeOk(None)
            ELSE LET r == De(ty.of, j) IN IF r.ok THEN DeOk(Some(r.val)) ELSE DeFail
      [] ty.k = "Vec" ->
            IF j.t # "arr" THEN DeFail
            ELSE LET items == [i \in 1..Len(j.v) |-> De(ty.of, j.v[i])]
                 IN  IF \A i \in 1..Len(items) : items[i].ok
                     THEN DeOk([i \in 1..Len(items) |-> items[i].val])
                     ELSE DeFail
      [] ty.k = "HashMap" ->
            IF j.t # "obj" THEN DeFail
            ELSE LET items == [i \in 1..Len(j.v) |-> De(ty.of, j.v[i][2])]
                 IN  IF \A i \in 1..Len(items) : items[i].ok
                     THEN DeOk(Collected(
                              [i \in 1..Len(items) |-> <<j.v[i][1], items[i].val>>], <<>>))
                     ELSE DeFail
      [] ty.k = "struct" ->
            IF j.t # "obj" THEN DeFail
            ELSE LET fs == Fields(ty.name)
                     given(i) == {n \in 1..Len(j.v) : j.v[n][1] = fs[i][1]}
                     field(i) ==
                         IF given(i) = {}
                         THEN (IF fs[i][2].k = "Option" THEN DeOk(None) ELSE DeFail)
                         ELSE IF Cardinality(given(i)) > 1 THEN DeFail
                         ELSE De(fs[i][2], j.v[CHOOSE n \in given(i) : TRUE][2])
                 IN  IF \A i \in 1..Len(fs) : field(i).ok
                     THEN DeOk([i \in 1..Len(fs) |-> field(i).val])
                     ELSE DeFail

\* serde_json::to_string_pretty(&x) of an x of type ty
to_string_pretty(ty, x) == Pretty(Ser(ty, x), 0)

\* serde_json::from_str::<ty>(text)
from_str(ty, text) ==
    LET r == ParseText(text)
    IN  IF r.ok THEN De(ty, r.val) ELSE DeFail

----------------------------------------------------------------------------
(* The arguments of the structured commands, as the caller sends them *)

WorkspacePlain ==
    JObj(<<
          <<<<"s", "c", "h", "e", "m", "a", "_", "v", "e", "r", "s", "i", "o", "n">>, JStr(<<"1">>)>>,
          <<<<"w", "o", "r", "k", "s", "p", "a", "c", "e">>, JObj(<<
            <<<<"i", "d">>, JStr(<<"w">>)>>,
            <<<<"n", "a", "m", "e">>, JStr(<<"W">>)>>,
            <<<<"r", "o", "o", "t">>, JStr(<<"/", "w">>)>>,
            <<<<"c", "r", "e", "a", "t", "e", "d", "_", "a", "t">>, JNull>> >>)>>,
          <<<<"s", "e", "t", "t", "i", "n", "g", "s">>, JNull>>,
          <<<<"t", "r", "e", "e">>, JArr(<<>>)>>,
          <<<<"s", "e", "s", "s", "i", "o", "n">>, JNull>> >>)

\* A name with a quote, a backslash and a character of two bytes, settings
\* with a key given twice, a folder with a child, a session, and a field
\* WorkspaceFile does not have.
WorkspaceRich ==
    JObj(<<
          <<<<"s", "c", "h", "e", "m", "a", "_", "v", "e", "r", "s", "i", "o", "n">>, JStr(<<"1">>)>>,
          <<<<"w", "o", "r", "k", "s", "p", "a", "c", "e">>, JObj(<<
            <<<<"i", "d">>, JStr(<<"w">>)>>,
            <<<<"n", "a", "m", "e">>, JStr(<<"e'", "\"", "\\">>)>>,
            <<<<"r", "o", "o", "t">>, JStr(<<"/", "w">>)>>,
            <<<<"u", "p", "d", "a", "t", "e", "d", "_", "a", "t">>, JStr(<<"t">>)>> >>)>>,
          <<<<"s", "e", "t", "t", "i", "n", "g", "s">>, JObj(<<
            <<<<"b">>, JNum(10)>>,
            <<<<"a">>, JArr(<<JNull, JBool(TRUE)>>)>>,
            <<<<"b">>, JStr(<<"x", "\n">>)>> >>)>>,
          <<<<"t", "r", "e", "e">>, JArr(<<JObj(<<
              <<<<"i", "d">>, JStr(<<"d">>)>>,
              <<<<"n", "a", "m", "e">>, JStr(<<"d">>)>>,
              <<<<"t", "y", "p", "e">>, JStr(<<"f", "o", "l", "d", "e", "r">>)>>,
              <<<<"c", "h", "i", "l", "d", "r", "e", "n">>, JArr(<<JObj(<<
                  <<<<"i", "d">>, JStr(<<"d", "/", "n">>)>>,
                  <<<<"n", "a", "m", "e">>, JStr(<<"n">>)>>,
                  <<<<"t", "y", "p", "e">>, JStr(<<"f", "i", "l", "e">>)>>,
                  <<<<"p", "a", "t", "h">>, JStr(<<"d", "/", "n">>)>>,
                  <<<<"m", "e", "t", "a">>, JObj(<<>>)>> >>)>>)>> >>)>>)>>,
          <<<<"s", "e", "s", "s", "i", "o", "n">>, JObj(<<
            <<<<"o", "p", "e", "n", "_", "n", "o", "d", "e", "s">>, JArr(<<JStr(<<"d", "/", "n">>)>>)>>,
            <<<<"c", "u", "r", "s", "o", "r">>, JObj(<<
              <<<<"d", "/", "n">>, JObj(<<
                <<<<"l", "i", "n", "e">>, JNum(3)>>,
                <<<<"c", "o", "l", "u", "m", "n">>, JNum(40)>> >>)>> >>)>> >>)>>,
          <<<<"e", "x", "t", "r", "a">>, JBool(FALSE)>> >>)

CalendarPlain ==
    JObj(<<
          <<<<"e", "v", "e", "n", "t", "s">>, JArr(<<>>)>>,
          <<<<"t", "a", "s", "k", "s">>, JArr(<<>>)>>,
          <<<<"s", "e", "t", "t", "i", "n", "g", "s">>, JObj(<<
            <<<<"v", "i", "e", "w">>, JStr(<<"m", "o", "n", "t", "h">>)>>,
            <<<<"s", "t", "a", "r", "t", "O", "f", "W", "e", "e", "k">>, JStr(<<"m", "o", "n", "d", "a", "y">>)>> >>)>> >>)

CalendarRich ==
    JArr(<<JObj(<<
            <<<<"t">>, JStr(<<"e'", "\\">>)>>,
            <<<<"n">>, JNull>> >>), JNum(7), JStr(<<"q", "\"">>)>>)

TWorkspaceFile == TStruct("WorkspaceFile")

\* The WorkspaceFile values save_workspace can be called with: the command's
\* argument is deserialized from the caller's JSON.
WorkspaceArgs == {De(TWorkspaceFile, j).val : j \in {WorkspacePlain, WorkspaceRich}}

\* The serde_json::Value values save_calendar_data can be called with
CalendarArgs == {De(TValue, j).val : j \in {CalendarPlain, CalendarRich}}

\* calendar.rs lines 23-30: the calendar of a root that has none
DefaultCalendar ==
    JObj(<<
          <<<<"e", "v", "e", "n", "t", "s">>, JArr(<<>>)>>,
          <<<<"s", "e", "t", "t", "i", "n", "g", "s">>, JObj(<<
            <<<<"s", "t", "a", "r", "t", "O", "f", "W", "e", "e", "k">>, JStr(<<"m", "o", "n", "d", "a", "y">>)>>,
            <<<<"v", "i", "e", "w">>, JStr(<<"m", "o", "n", "t", "h">>)>> >>)>>,
          <<<<"t", "a", "s", "k", "s">>, JArr(<<>>)>> >>)

----------------------------------------------------------------------------
(* The file commands: one call at a time, one step per filesystem call *)

\* Result<T, HibiscusError>.  origin: the step whose failure the error
\* reports.
Ok(value) == [ok |-> TRUE, err |-> "none", origin |-> "none", value |-> Some(value)]
Err(kind, origin) == [ok |-> FALSE, err |-> kind, origin |-> origin, value |-> None]
Pending == [ok |-> FALSE, err |-> "pending", origin |-> "none", value |-> None]

\* The calls served so far
Served == IF call.pc = "idle" THEN 0 ELSE call.n

CanInvoke == call.pc \in {"idle", "returned"} /\ Served < MaxCalls

\* A call of command op on path with argument arg, at its entry.  before:
\* the disk at the call; log: the steps made, each with its success; prev:
\* the call served before this one.
Begin(op, path, arg) ==
    [pc |-> "entry", op |-> op, path |-> path, arg |-> arg, n |-> Served + 1,
     before |-> disk, log |-> <<>>, result |-> Pending,
     prev |-> IF call.pc = "returned"
              THEN Some([op |-> call.op, path |-> call.path, arg |-> call.arg,
                         ok |-> call.result.ok])
              ELSE None]

Logged(c, step, ok) == [c EXCEPT !.log = Append(@, [step |-> step, ok |-> ok])]

\* The call goes on to step pc.
Goto(c, pc) == [c EXCEPT !.pc = pc]

\* The call keeps error e for its return and goes on to step pc.
Failing(c, e, pc) == [c EXCEPT !.pc = pc, !.result = e]

\* The call returns r.
Return(c, r) == [c EXCEPT !.pc = "returned", !.result = r]

Running(op, pc) == call.pc = pc /\ call.op = op

\* The path a call writes or reads
Target(c) ==
    IF c.op \in {"read_calendar_data", "save_calendar_data"}
    THEN join(join(Bytes(c.path), <<".", "h", "i", "b", "i", "s", "c", "u", "s">>),
              <<"c", "a", "l", "e", "n", "d", "a", "r", ".", "j", "s", "o", "n">>)
    ELSE Bytes(c.path)

\* An entry that goes on whatever the path is.
ValidatedUnchecked(c, pc) == Goto(Logged(c, "validate", TRUE), pc)

\* validate_path(&path)? at the entry of a command, and where the command
\* goes next when the path is accepted
Validated(c, pc) ==
    IF validate(Target(c)).ok
    THEN Goto(Logged(c, "validate", TRUE), pc)
    ELSE Return(Logged(c, "validate", FALSE), Err("PathValidation", "validate"))

\* The step after the validation of a save: create_dir_all when the path
\* has a parent, else the first step of the write
AfterValidate(c, first) == IF parent(Target(c)) = None THEN first ELSE "create_dir_all"

\* fs::create_dir_all(parent).await?, for command op, which goes on to step
\* pc.  It fails when an ancestor is a file, and whenever the system says
\* so; a failure may leave some of the directories made.
create_dir_all(op, pc) ==
    /\ Running(op, "create_dir_all")
    /\ LET dirs == Ancestors(parent(Target(call))[1])
           blocked == \E q \in dirs : is_file(q)
           made(n) == [q \in (DOMAIN disk) \cup {d \in dirs : Len(d) <= n} |->
                          IF q \in DOMAIN disk THEN disk[q] ELSE Dir]
       IN  \/ /\ ~blocked
              /\ disk' = made(Len(Target(call)))
              /\ call' = Goto(Logged(call, "create_dir_all", TRUE), pc)
           \/ /\ \E n \in {0} \cup {Len(d) : d \in dirs} :
                    /\ \A q \in dirs : Len(q) <= n => ~is_file(q)
                    /\ n < Len(parent(Target(call))[1]) \/ blocked
                    /\ disk' = made(n)
              /\ call' = Return(Logged(call, "create_dir_all", FALSE),
                                Err("Io", "create_dir_all"))
    /\ UNCHANGED <<wvars, platform>>

----------------------------------------------------------------------------
(* write_text_file *)

\* The sequence of write_text_file without the sync.
NextStepNoSync(step) ==
    CASE step = "create" -> "write"
      [] step = "write" -> IF platform = "windows" /\ exists(Target(call))
                           THEN "remove_dest" ELSE "rename"
      [] step = "sync" -> "rename"
      [] step = "remove_dest" -> "rename"

\* files.rs lines 104-156: the step that follows the success of `step`.
\* The delete of lines 142-153 is compiled for Windows only, and made when
\* the target exists.
NextStep(step) ==
    CASE step = "create" -> "write"
      [] step = "write" -> "sync"
      [] step = "sync" -> IF platform = "windows" /\ exists(Target(call))
                          THEN "remove_dest" ELSE "rename"
      [] step = "remove_dest" -> "rename"

\* files.rs lines 72-76: the entry and the validation
write_text_file(path, contents) ==
    /\ CanInvoke
    /\ LET c == Begin("write_text_file", path, contents)
       IN  call' = Validated(c, AfterValidate(c, "create"))
    /\ UNCHANGED <<wvars, platform, disk>>

\* files.rs lines 79-87
wt_create_dir_all == create_dir_all("write_text_file", "create")

\* files.rs line 106: File::create(&temp_path).  It fails when the temporary
\* path is a directory, and whenever the system says so.
wt_create ==
    /\ Running("write_text_file", "create")
    /\ LET temp == save_temp_path(Target(call))
       IN  \/ /\ ~is_dir(temp)
              /\ disk' = Put(disk, temp, File(<<>>, FALSE))
              /\ call' = Goto(Logged(call, "create", TRUE), NextStep("create"))
           \/ /\ disk' = disk
              /\ call' = Failing(Logged(call, "create", FALSE), Err("Io", "create"),
                                 "cleanup")
    /\ UNCHANGED <<wvars, platform>>

\* files.rs line 114: file.write_all(contents.as_bytes()).  A failure leaves
\* some of the bytes written.
wt_write ==
    /\ Running("write_text_file", "write")
    /\ LET temp == save_temp_path(Target(call))
           bytes == as_bytes(call.arg)
       IN  \/ /\ disk' = Put(disk, temp, File(bytes, FALSE))
              /\ call' = Goto(Logged(call, "write", TRUE), NextStep("write"))
           \/ \E k \in 0..Len(bytes) :
                /\ k < Len(bytes) \/ bytes = <<>>
                /\ disk' = Put(disk, temp, File(SubSeq(bytes, 1, k), FALSE))
                /\ call' = Failing(Logged(call, "write", FALSE), Err("Io", "write"),
                                   "cleanup")
    /\ UNCHANGED <<wvars, platform>>

\* files.rs line 123: file.sync_all()
wt_sync ==
    /\ Running("write_text_file", "sync")
    /\ LET temp == save_temp_path(Target(call))
       IN  \/ /\ disk' = Put(disk, temp, File(disk[temp].data, TRUE))
              /\ call' = Goto(Logged(call, "sync", TRUE), NextStep("sync"))
           \/ /\ disk' = disk
              /\ call' = Failing(Logged(call, "sync", FALSE), Err("Io", "sync"),
                                 "cleanup")
    /\ UNCHANGED <<wvars, platform>>

\* files.rs lines 142-153, Windows: fs::remove_file(&path) of the existing
\* target
wt_remove_dest ==
    /\ Running("write_text_file", "remove_dest")
    /\ \/ /\ is_file(Target(call))
          /\ disk' = Del(disk, Target(call))
          /\ call' = Goto(Logged(call, "remove_dest", TRUE), NextStep("remove_dest"))
       \/ /\ disk' = disk
          /\ call' = Failing(Logged(call, "remove_dest", FALSE),
                             Err("Io", "remove_dest"), "cleanup")
    /\ UNCHANGED <<wvars, platform>>

\* A commit that copies the temporary file to the target instead of
\* renaming it.
wt_rename_copy ==
    /\ Running("write_text_file", "rename")
    /\ LET temp == save_temp_path(Target(call))
       IN  \/ /\ ~is_dir(Target(call))
              /\ disk' = Put(disk, Target(call), disk[temp])
              /\ call' = Return(Logged(call, "rename", TRUE), Ok("unit"))
           \/ /\ disk' = disk
              /\ call' = Failing(Logged(call, "rename", FALSE), Err("Io", "rename"),
                                 "cleanup")
    /\ UNCHANGED <<wvars, platform>>

\* files.rs line 156: fs::rename(&temp_path, &path).  It fails when the
\* target is a directory, and whenever the system says so.
wt_rename ==
    /\ Running("write_text_file", "rename")
    /\ LET temp == save_temp_path(Target(call))
       IN  \/ /\ ~is_dir(Target(call))
              /\ disk' = Del(Put(disk, Target(call), disk[temp]), temp)
              /\ call' = Return(Logged(call, "rename", TRUE), Ok("unit"))
           \/ /\ disk' = disk
              /\ call' = Failing(Logged(call, "rename", FALSE), Err("Io", "rename"),
                                 "cleanup")
    /\ UNCHANGED <<wvars, platform>>

\* The cleanup that returns its own error when the removal fails.
wt_cleanup_checked ==
    /\ Running("write_text_file", "cleanup")
    /\ LET temp == save_temp_path(Target(call))
       IN  \/ /\ disk' = IF is_file(temp) THEN Del(disk, temp) ELSE disk
              /\ call' = Return(Logged(call, "cleanup", is_file(temp)), call.result)
           \/ /\ disk' = disk
              /\ call' = Return(Logged(call, "cleanup", FALSE), Err("Io", "cleanup"))
    /\ UNCHANGED <<wvars, platform>>

\* files.rs lines 132-135, 146 and 158: let _ = fs::remove_file(&temp_path),
\* then the return of the error kept
wt_cleanup ==
    /\ Running("write_text_file", "cleanup")
    /\ LET temp == save_temp_path(Target(call))
       IN  \/ /\ disk' = IF is_file(temp) THEN Del(disk, temp) ELSE disk
              /\ call' = Return(Logged(call, "cleanup", is_file(temp)), call.result)
           \/ /\ disk' = disk
              /\ call' = Return(Logged(call, "cleanup", FALSE), call.result)
    /\ UNCHANGED <<wvars, platform>>

----------------------------------------------------------------------------
(* save_workspace and save_calendar_data *)

\* The lengths a write of bytes that fails may stop at: nothing written,
\* half of the bytes, all but the last.
Cuts(bytes) == {0, Len(bytes) \div 2, Len(bytes) - 1} \cap (0..(Len(bytes) - 1))

\* fs::write(&temp_path, &json).await?, for command op with an argument of
\* type ty: File::create and write_all, no sync.  It fails before the file
\* is made, or with some of the bytes written; the error is returned as it
\* is.
structured_write(op, ty) ==
    /\ Running(op, "write")
    /\ LET temp == json_temp_path(Target(call))
           bytes == as_bytes(to_string_pretty(ty, call.arg))
       IN  \/ /\ ~is_dir(temp)
              /\ disk' = Put(disk, temp, File(bytes, FALSE))
              /\ call' = Goto(Logged(call, "write", TRUE), "rename")
           \/ /\ disk' = disk
              /\ call' = Return(Logged(call, "write", FALSE), Err("Io", "write"))
           \/ \E k \in Cuts(bytes) :
                /\ ~is_dir(temp)
                /\ disk' = Put(disk, temp, File(SubSeq(bytes, 1, k), FALSE))
                /\ call' = Return(Logged(call, "write", FALSE), Err("Io", "write"))
    /\ UNCHANGED <<wvars, platform>>

\* fs::rename(&temp_path, &path).await?, for command op: the error is
\* returned as it is.
structured_rename(op) ==
    /\ Running(op, "rename")
    /\ LET temp == json_temp_path(Target(call))
       IN  \/ /\ ~is_dir(Target(call))
              /\ disk' = Del(Put(disk, Target(call), disk[temp]), temp)
              /\ call' = Return(Logged(call, "rename", TRUE), Ok("unit"))
           \/ /\ disk' = disk
              /\ call' = Return(Logged(call, "rename", FALSE), Err("Io", "rename"))
    /\ UNCHANGED <<wvars, platform>>

\* workspace.rs lines 65-69
save_workspace(path, workspace) ==
    /\ CanInvoke
    /\ LET c == Begin("save_workspace", path, workspace)
       IN  call' = Validated(c, AfterValidate(c, "write"))
    /\ UNCHANGED <<wvars, platform, disk>>

\* workspace.rs lines 72-76
sw_create_dir_all == create_dir_all("save_workspace", "write")

\* workspace.rs lines 79-86
sw_write == structured_write("save_workspace", TWorkspaceFile)

\* workspace.rs lines 88-92
sw_rename == structured_rename("save_workspace")

\* calendar.rs lines 43-48
save_calendar_data(root, data) ==
    /\ CanInvoke
    /\ LET c == Begin("save_calendar_data", root, data)
       IN  call' = Validated(c, AfterValidate(c, "write"))
    /\ UNCHANGED <<wvars, platform, disk>>

\* calendar.rs lines 51-55
sc_create_dir_all == create_dir_all("save_calendar_data", "write")

\* calendar.rs lines 57-64
sc_write == structured_write("save_calendar_data", TValue)

\* calendar.rs lines 66-70
sc_rename == structured_rename("save_calendar_data")

----------------------------------------------------------------------------
(* The commands that read *)

\* A call that makes the steps of `steps`, all successful but the last when
\* the result is an error.
LoggedAll(c, steps, r) ==
    [c EXCEPT !.log = @ \o [i \in 1..Len(steps) |->
                               [step |-> steps[i], ok |-> r.ok \/ i < Len(steps)]]]

\* fs::read_to_string(&path): the text of the file, or None: the path is
\* not a file, its bytes are not UTF-8, or the system says so.
ReadOutcomes(p) ==
    {None} \cup (IF is_file(p) /\ from_utf8(disk[p].data) # None
                 THEN {Some(from_utf8(disk[p].data)[1])} ELSE {})

\* A reading command that tests the type of the path before its existence.
ReadResultTypeFirst(c, checks, absent, ty, content) ==
    IF "is_file" \in checks /\ ~is_file(Target(c))
    THEN LoggedAll(Return(c, Err("InvalidPathType", "is_file")), <<"is_file">>,
                   Err("InvalidPathType", "is_file"))
    ELSE IF content = None
    THEN LoggedAll(Return(c, Err("Io", "read")), <<"is_file", "read">>, Err("Io", "read"))
    ELSE LoggedAll(Return(c, Ok(content[1])), <<"is_file", "read">>, Ok(content[1]))

\* What a reading command does after the validation: the checks it makes
\* and its result.  checks: the existence and type checks of the command;
\* absent: its result when the path does not exist; ty: the type it parses
\* the text as, None for the text itself.
ReadResult(c, checks, absent, ty, content) ==
    IF "exists" \in checks /\ ~exists(Target(c))
    THEN LoggedAll(Return(c, absent), <<"exists">>, absent)
    ELSE IF "is_file" \in checks /\ ~is_file(Target(c))
    THEN LoggedAll(Return(c, Err("InvalidPathType", "is_file")), <<"exists", "is_file">>,
                   Err("InvalidPathType", "is_file"))
    ELSE LET made == (IF "is_file" \in checks THEN <<"exists", "is_file">> ELSE <<"exists">>)
         IN  IF content = None
             THEN LoggedAll(Return(c, Err("Io", "read")), made \o <<"read">>,
                            Err("Io", "read"))
             ELSE IF ty = None
             THEN LoggedAll(Return(c, Ok(content[1])), made \o <<"read">>, Ok(content[1]))
             ELSE LET r == from_str(ty[1], content[1])
                      res == IF r.ok THEN Ok(r.val) ELSE Err("Serialization", "parse")
                  IN  LoggedAll(Return(c, res), made \o <<"read", "parse">>, res)

\* A reading command: the validation, then the rest
Reading(op, path, checks, absent, ty) ==
    /\ CanInvoke
    /\ LET c == Validated(Begin(op, path, None), "read")
       IN  IF c.pc = "returned" THEN call' = c
           ELSE \E content \in ReadOutcomes(Target(c)) :
                   call' = ReadResult(c, checks, absent, ty, content)
    /\ UNCHANGED <<wvars, platform, disk>>

\* files.rs lines 25-50
read_text_file(path) ==
    Reading("read_text_file", path, {"exists", "is_file"},
            Err("FileNotFound", "exists"), None)

\* workspace.rs lines 22-51
load_workspace(path) ==
    Reading("load_workspace", path, {"exists", "is_file"},
            Err("FileNotFound", "exists"), Some(TWorkspaceFile))

\* A read that reports the calendar that is not there, as the other
\* readers do.
absent_calendar_not_found == Err("FileNotFound", "exists")

\* calendar.rs lines 21-31: the result when calendar.json does not exist
absent_calendar == Ok(De(TValue, DefaultCalendar).val)

\* calendar.rs lines 14-39
read_calendar_data(root) ==
    Reading("read_calendar_data", root, {"exists"}, absent_calendar, Some(TValue))

----------------------------------------------------------------------------
(* build_tree and read_dir_recursive *)

UpperLetters == <<"A", "B", "C", "D", "E", "F", "G", "H", "I", "J", "K", "L", "M", "N", "O", "P", "Q", "R", "S", "T", "U", "V", "W", "X", "Y", "Z">>
LowerLetters == <<"a", "b", "c", "d", "e", "f", "g", "h", "i", "j", "k", "l", "m", "n", "o", "p", "q", "r", "s", "t", "u", "v", "w", "x", "y", "z">>

\* str::to_lowercase, of the letters of the model
to_lowercase(str) ==
    [i \in 1..Len(str) |->
        IF \E k \in 1..26 : UpperLetters[k] = str[i]
        THEN LowerLetters[CHOOSE k \in 1..26 : UpperLetters[k] = str[i]]
        ELSE str[i]]

\* The entries fs::read_dir(dir) yields
Entries(dir) == {p \in DOMAIN disk : parent(p) = Some(dir)}

\* What can go wrong in a walk: read_dir, the directories fs::read_dir
\* fails on; entry, the entries whose entry_result is an error.  The ones
\* of the paths of S:
Faults(S) ==
    {[read_dir |-> A, entry |-> B] : A \in SUBSET {p \in S : is_dir(p)}, B \in SUBSET S}

\* Path::strip_prefix(base), as a string: the full path when base is not
\* a prefix, component by component.
rel_path(p, base) ==
    IF p = base THEN <<>>
    ELSE IF Len(p) > Len(base) + 1 /\ SubSeq(p, 1, Len(base)) = base /\ p[Len(base) + 1] = "/"
    THEN Lossy(SubSeq(p, Len(base) + 2, Len(p)))
    ELSE Lossy(p)

\* A walk that keeps the hidden entries.
hidden_never(name) == FALSE

\* tree.rs line 109: file_name.starts_with('.')
hidden(name) == name[1] = "."

\* A walk that drops the directories it cannot read.
skipped_unreadable(p, failing) == p \in failing.entry \cup failing.read_dir

\* tree.rs lines 79-85: the entry is an error
skipped(p, failing) == p \in failing.entry

\* A walk that gives every node a path.
node_path_always(dir, rel) == Some(rel)

\* tree.rs line 138
node_path(dir, rel) == IF dir THEN None ELSE Some(rel)

\* A walk that spends no budget on a level.
child_depth_same(max_depth) == max_depth

\* tree.rs line 141: max_depth - 1
child_depth(max_depth) == max_depth - 1

\* The files before the folders.
combined_files_first(folders, files) == files \o folders

\* tree.rs lines 163-166: folders.extend(files)
combined(folders, files) == folders \o files

\* The orders fs::read_dir may yield the entries of a directory in; the
\* system promises none.  Two of them: by the bytes of the paths, and the
\* reverse.
EnumerationOrders == {"bytes", "reverse"}

RECURSIVE ByBytes(_)
ByBytes(S) ==
    IF S = {} THEN <<>>
    ELSE LET first == CHOOSE p \in S : \A q \in S \ {p} : KeyLess(p, q)
         IN  <<first>> \o ByBytes(S \ {first})

Reverse(s) == [i \in 1..Len(s) |-> s[Len(s) + 1 - i]]

\* The entries of dir in the order the iterator of fs::read_dir yields them
Enumerated(dir, order) ==
    IF order = "bytes" THEN ByBytes(Entries(dir)) ELSE Reverse(ByBytes(Entries(dir)))

\* tree.rs lines 157-161: Vec::sort_by on the lowercase name.  The sort is
\* stable: nodes whose lowercase names are equal stay in the order they
\* were pushed in.
RECURSIVE Sorted(_)
Sorted(nodes) ==
    IF nodes = <<>> THEN <<>>
    ELSE LET key(i) == to_lowercase(nodes[i][2])
             first == CHOOSE i \in 1..Len(nodes) :
                 \A j \in 1..Len(nodes) :
                     /\ ~KeyLess(key(j), key(i))
                     /\ (j < i => KeyLess(key(i), key(j)))
         IN  <<nodes[first]>>
               \o Sorted(SubSeq(nodes, 1, first - 1) \o SubSeq(nodes, first + 1, Len(nodes)))

\* tree.rs lines 52-167.  A Node is the array of its fields, in the order
\* of workspace.rs: id, name, node_type, path, children, meta.
RECURSIVE read_dir_recursive(_, _, _, _, _)
read_dir_recursive(root, base, max_depth, failing, order) ==
    IF max_depth = 0 \/ ~is_dir(root) \/ root \in failing.read_dir THEN <<>>
    ELSE LET keep(p) ==
                 /\ ~skipped(p, failing)
                 /\ file_name(p) # None
                 /\ BadByte \notin {file_name(p)[1][i] : i \in 1..Len(file_name(p)[1])}
                 /\ ~hidden(file_name(p)[1])
             kept == SelectSeq(Enumerated(root, order), keep)
             node(p) ==
                 << rel_path(p, base),
                    file_name(p)[1],
                    IF is_dir(p) THEN "Folder" ELSE "File",
                    node_path(is_dir(p), rel_path(p, base)),
                    IF is_dir(p)
                    THEN Some(read_dir_recursive(p, base, child_depth(max_depth),
                                                 failing, order))
                    ELSE None,
                    None >>
             pushed(seq) == [i \in 1..Len(seq) |-> node(seq[i])]
             folders == pushed(SelectSeq(kept, is_dir))
             files == pushed(SelectSeq(kept, LAMBDA p : ~is_dir(p)))
         IN  combined(Sorted(folders), Sorted(files))

\* commands/tree.rs lines 29-44
build_tree(root, failing, order) ==
    /\ CanInvoke
    /\ LET c == Validated(Begin("build_tree", root, None), "read")
       IN  call' =
             IF c.pc = "returned" THEN c
             ELSE IF ~is_dir(Target(c))
             THEN LoggedAll(Return(c, Err("InvalidPathType", "is_dir")), <<"is_dir">>,
                            Err("InvalidPathType", "is_dir"))
             ELSE LoggedAll(
                      Return(c, Ok(read_dir_recursive(Target(c), Target(c),
                                                      MAX_TREE_DEPTH, failing, order))),
                      <<"is_dir", "read_dir">>, Ok("nodes"))
    /\ UNCHANGED <<wvars, platform, disk>>

----------------------------------------------------------------------------
(* discover_workspace *)

HibiscusDir == <<".", "h", "i", "b", "i", "s", "c", "u", "s">>
WorkspaceJson == <<"w", "o", "r", "k", "s", "p", "a", "c", "e", ".", "j", "s", "o", "n">>

\* A discovery that takes whatever is at the place for a workspace.
candidate_exists(candidate) == exists(candidate)

\* commands/workspace.rs line 116: candidate.is_file()
candidate_found(candidate) == is_file(candidate)

\* commands/workspace.rs lines 112-127: no validation, one test of the
\* candidate, a WorkspaceDiscovery in both cases
discover_workspace(root) ==
    /\ CanInvoke
    /\ LET c == Begin("discover_workspace", root, None)
           candidate == join(join(Bytes(root), HibiscusDir), WorkspaceJson)
           found == [found |-> TRUE, path |-> Some(Lossy(candidate))]
           none == [found |-> FALSE, path |-> None]
       IN  call' = Return(Logged(c, "is_file", TRUE),
                          Ok(IF candidate_found(candidate) THEN found ELSE none))
    /\ UNCHANGED <<wvars, platform, disk>>

----------------------------------------------------------------------------
(* The file commands as a system *)

OldBytes == <<"o", "l", "d">>

\* The disks a run starts from: the directory /w, empty, or with a
\* document, or with a workspace.json that is not JSON, or with a
\* directory where workspace.json should be.
InitialDisks ==
    { Put(EmptyDisk, Bytes(RootW), Dir),
      Put(Put(EmptyDisk, Bytes(RootW), Dir), Bytes(FileDoc), File(OldBytes, TRUE)),
      Put(Put(Put(EmptyDisk, Bytes(RootW), Dir),
              parent(Bytes(FileWorkspace))[1], Dir),
          Bytes(FileWorkspace), File(<<"{">>, TRUE)),
      Put(Put(Put(EmptyDisk, Bytes(RootW), Dir),
              parent(Bytes(FileWorkspace))[1], Dir),
          Bytes(FileWorkspace), Dir) }

\* The arguments of the commands
FilePaths == {FileDoc, FileEscape, RootDeep}
Contents == {<<"h", "i">>, <<"e'">>}
WorkspacePaths == {FileWorkspace, FileEscape}
CalendarRoots == {RootW, RootTraversal}
TreeRoots == {RootW, RootTraversal, FileDoc}
ReadPaths == FilePaths \cup {RootW}
LoadPaths == WorkspacePaths \cup {RootW}
DiscoverRoots == {RootW, FileDoc}

FsInit ==
    /\ WatcherInit
    /\ platform \in {"unix", "windows"}
    /\ disk \in InitialDisks
    /\ call = NoCall

FsNext ==
    \/ \E path \in FilePaths, contents \in Contents : write_text_file(path, contents)
    \/ wt_create_dir_all
    \/ wt_create
    \/ wt_write
    \/ wt_sync
    \/ wt_remove_dest
    \/ wt_rename
    \/ wt_cleanup
    \/ \E path \in WorkspacePaths, workspace \in WorkspaceArgs :
          save_workspace(path, workspace)
    \/ sw_create_dir_all
    \/ sw_write
    \/ sw_rename
    \/ \E root \in CalendarRoots, data \in CalendarArgs : save_calendar_data(root, data)
    \/ sc_create_dir_all
    \/ sc_write
    \/ sc_rename
    \/ \E path \in ReadPaths : read_text_file(path)
    \/ \E path \in LoadPaths : load_workspace(path)
    \/ \E root \in CalendarRoots : read_calendar_data(root)
    \/ \E root \in TreeRoots :
          \E failing \in Faults({Bytes(root)} \cup Entries(Bytes(root))),
             order \in EnumerationOrders :
             build_tree(root, failing, order)
    \/ \E root \in DiscoverRoots : discover_workspace(root)

FsSpec == FsInit /\ [][FsNext]_vars

----------------------------------------------------------------------------
(* Two write_text_file calls in flight on one path *)

\* The contents of the two calls, the first the longer one.
PairContents == << <<"h", "i">>, <<"y">> >>

\* The tokio File of a call: closed, open on the file that is now at a
\* path, or open on a file that has no name any more.
Closed == [open |-> FALSE, at |-> None]
OpenAt(p) == [open |-> TRUE, at |-> Some(p)]
Unlinked == [open |-> TRUE, at |-> None]

\* A handle after the file at `from` was given the name `to`, or removed
\* when `to` is None: the handle follows its file, and a handle on the file
\* that had the name `to` keeps a file without a name.
Follow(h, from, to) ==
    IF h.open /\ h.at = Some(from) THEN [h EXCEPT !.at = to]
    ELSE IF h.open /\ to # None /\ h.at = to THEN Unlinked
    ELSE h

\* write_all from offset 0 of a file just opened: the bytes replace the
\* head of what the file holds.
Over(old, bytes) == bytes \o SubSeq(old, Len(bytes) + 1, Len(old))

\* The write of a handle: on the file it is open on, wherever that file is
\* now.
Written(d, h, bytes) ==
    IF h.at = None THEN d
    ELSE Put(d, h.at[1], File(Over(d[h.at[1]].data, bytes), FALSE))

Writers == 1..2

NewWriter(i) ==
    [pc |-> "idle", arg |-> PairContents[i], file |-> Closed, result |-> Pending,
     log |-> <<>>]

\* Writer i becomes w, and the handles of both writers follow the file
\* that was at `from`.
Stepped(i, w, from, to) ==
    [call EXCEPT !.w = [j \in Writers |->
        LET v == IF j = i THEN w ELSE call.w[j]
        IN  [v EXCEPT !.file = Follow(@, from, to)]]]

\* Writer i becomes w, no file changes its name.
Step(i, w) == [call EXCEPT !.w[i] = w]

At(i, pc) == call.pc = "pair" /\ call.w[i].pc = pc

\* files.rs lines 72-76: the entry and the validation
pair_write_text_file(i) ==
    /\ At(i, "idle")
    /\ call' = Step(i,
         IF validate(Target(call)).ok
         THEN Goto(Logged(call.w[i], "validate", TRUE), AfterValidate(call, "create"))
         ELSE Return(Logged(call.w[i], "validate", FALSE),
                     Err("PathValidation", "validate")))
    /\ UNCHANGED <<wvars, platform, disk>>

\* files.rs lines 79-87: create_dir_all(parent)
pair_create_dir_all(i) ==
    /\ At(i, "create_dir_all")
    /\ LET dirs == Ancestors(parent(Target(call))[1])
       IN  \/ /\ \A q \in dirs : ~is_file(q)
              /\ disk' = [q \in (DOMAIN disk) \cup dirs |->
                             IF q \in DOMAIN disk THEN disk[q] ELSE Dir]
              /\ call' = Step(i, Goto(Logged(call.w[i], "create_dir_all", TRUE),
                                      "create"))
           \/ /\ disk' = disk
              /\ call' = Step(i, Return(Logged(call.w[i], "create_dir_all", FALSE),
                                        Err("Io", "create_dir_all")))
    /\ UNCHANGED <<wvars, platform>>

\* files.rs line 106: File::create(&temp_path) opens the temporary file
\* with create and truncate; a file that is there is emptied and stays the
\* file the other call has open.
pair_create(i) ==
    /\ At(i, "create")
    /\ LET temp == save_temp_path(Target(call))
       IN  \/ /\ ~is_dir(temp)
              /\ disk' = Put(disk, temp, File(<<>>, FALSE))
              /\ call' = Step(i, [Goto(Logged(call.w[i], "create", TRUE),
                                       NextStep("create"))
                                    EXCEPT !.file = OpenAt(temp)])
           \/ /\ disk' = disk
              /\ call' = Step(i, Failing(Logged(call.w[i], "create", FALSE),
                                         Err("Io", "create"), "cleanup"))
    /\ UNCHANGED <<wvars, platform>>

\* files.rs line 114: file.write_all(contents.as_bytes()), through the
\* handle.  A failure leaves some of the bytes written, and ends the block
\* that holds the file.
pair_write(i) ==
    /\ At(i, "write")
    /\ LET h == call.w[i].file
           bytes == as_bytes(call.w[i].arg)
       IN  \/ /\ disk' = Written(disk, h, bytes)
              /\ call' = Step(i, Goto(Logged(call.w[i], "write", TRUE),
                                      NextStep("write")))
           \/ \E k \in Cuts(bytes) :
                /\ disk' = Written(disk, h, SubSeq(bytes, 1, k))
                /\ call' = Step(i, [Failing(Logged(call.w[i], "write", FALSE),
                                            Err("Io", "write"), "cleanup")
                                      EXCEPT !.file = Closed])
    /\ UNCHANGED <<wvars, platform>>

\* files.rs lines 123-128: file.sync_all(), then the end of the block, where
\* the file is dropped
pair_sync(i) ==
    /\ At(i, "sync")
    /\ LET h == call.w[i].file
       IN  \/ /\ disk' = IF h.at = None THEN disk
                         ELSE Put(disk, h.at[1], File(disk[h.at[1]].data, TRUE))
              /\ call' = Step(i, [Goto(Logged(call.w[i], "sync", TRUE),
                                       NextStep("sync"))
                                    EXCEPT !.file = Closed])
           \/ /\ disk' = disk
              /\ call' = Step(i, [Failing(Logged(call.w[i], "sync", FALSE),
                                          Err("Io", "sync"), "cleanup")
                                    EXCEPT !.file = Closed])
    /\ UNCHANGED <<wvars, platform>>

\* files.rs lines 142-153, Windows: fs::remove_file(&path)
pair_remove_dest(i) ==
    /\ At(i, "remove_dest")
    /\ \/ /\ is_file(Target(call))
          /\ disk' = Del(disk, Target(call))
          /\ call' = Stepped(i, Goto(Logged(call.w[i], "remove_dest", TRUE),
                                     NextStep("remove_dest")),
                             Target(call), None)
       \/ /\ disk' = disk
          /\ call' = Step(i, Failing(Logged(call.w[i], "remove_dest", FALSE),
                                     Err("Io", "remove_dest"), "cleanup"))
    /\ UNCHANGED <<wvars, platform>>

\* files.rs line 156: fs::rename(&temp_path, &path).  It fails when there
\* is no temporary file, when the target is a directory, and whenever the
\* system says so.
pair_rename(i) ==
    /\ At(i, "rename")
    /\ LET temp == save_temp_path(Target(call))
       IN  \/ /\ is_file(temp)
              /\ ~is_dir(Target(call))
              /\ disk' = Del(Put(disk, Target(call), disk[temp]), temp)
              /\ call' = Stepped(i, Return(Logged(call.w[i], "rename", TRUE),
                                           Ok("unit")),
                                 temp, Some(Target(call)))
           \/ /\ disk' = disk
              /\ call' = Step(i, Failing(Logged(call.w[i], "rename", FALSE),
                                         Err("Io", "rename"), "cleanup"))
    /\ UNCHANGED <<wvars, platform>>

\* files.rs lines 132-135, 146 and 158: let _ = fs::remove_file(&temp_path),
\* then the return of the error kept
pair_cleanup(i) ==
    /\ At(i, "cleanup")
    /\ LET temp == save_temp_path(Target(call))
           done == Return(Logged(call.w[i], "cleanup", is_file(temp)),
                          call.w[i].result)
       IN  \/ /\ is_file(temp)
              /\ disk' = Del(disk, temp)
              /\ call' = Stepped(i, done, temp, None)
           \/ /\ disk' = disk
              /\ call' = Step(i, Return(Logged(call.w[i], "cleanup", FALSE),
                                        call.w[i].result))
    /\ UNCHANGED <<wvars, platform>>

\* Both calls are made on FileDoc, which holds OldBytes or is not there.
PairInit ==
    /\ WatcherInit
    /\ platform \in {"unix", "windows"}
    /\ disk \in {d \in InitialDisks : \A p \in DOMAIN d : Len(p) <= Len(Bytes(FileDoc))}
    /\ call = [pc |-> "pair", op |-> "write_text_file", path |-> FileDoc,
               before |-> disk, w |-> [i \in Writers |-> NewWriter(i)]]

PairNext ==
    \/ \E i \in Writers : pair_write_text_file(i)
    \/ \E i \in Writers : pair_create_dir_all(i)
    \/ \E i \in Writers : pair_create(i)
    \/ \E i \in Writers : pair_write(i)
    \/ \E i \in Writers : pair_sync(i)
    \/ \E i \in Writers : pair_remove_dest(i)
    \/ \E i \in Writers : pair_rename(i)
    \/ \E i \in Writers : pair_cleanup(i)

PairSpec == PairInit /\ [][PairNext]_vars

----------------------------------------------------------------------------
(* validate_path as a function of its input *)

\* The characters of the paths given to validate: both separators, the
\* dot, a letter and a byte that is not UTF-8.
PathChars == {"/", "\\", ".", "a", BadByte}

ShortPaths == UNION {[1..n -> PathChars] : n \in 0..MaxPathLen}

\* The depths of the "/d/d/.../d" prefix of a path: none, and the depths
\* around MAX_PATH_DEPTH.
PrefixDepths == {0, MAX_PATH_DEPTH - 2, MAX_PATH_DEPTH - 1, MAX_PATH_DEPTH}

Probes == {Nested(k) \o s : k \in PrefixDepths, s \in ShortPaths}

ValidateInit ==
    /\ WatcherInit
    /\ platform = "unix"
    /\ disk = EmptyDisk
    /\ \E p \in Probes : call = [pc |-> "probe", path |-> p]

\* validate_path(&path)
Validate ==
    /\ call.pc = "probe"
    /\ call' = [pc |-> "validated", path |-> call.path, result |-> validate(call.path)]
    /\ UNCHANGED <<wvars, platform, disk>>

ValidateNext == Validate

ValidateSpec == ValidateInit /\ [][ValidateNext]_vars

----------------------------------------------------------------------------
(* read_dir_recursive as a function of its input *)

\* The path of the names of segs, one under the other
PathOf(segs) == Flatten([i \in 1..Len(segs) |-> <<"/">> \o segs[i]])

\* A disk with the entries of `entries`, each a pair of a path and a kind
DiskOf(entries) ==
    [p \in {e[1] : e \in entries} |->
        IF \E e \in entries : e[1] = p /\ e[2] = "dir" THEN Dir ELSE File(<<>>, TRUE)]

DirW == PathOf(<<<<"w">>>>)
DirB == PathOf(<<<<"w">>, <<"B">>>>)
DirD == PathOf(<<<<"w">>, <<"B">>, <<"D">>>>)
DirF == PathOf(<<<<"w">>, <<"B">>, <<"D">>, <<"F">>>>)
DirZ == PathOf(<<<<"w">>, <<"z">>>>)
DirHidden == PathOf(<<<<"w">>, <<".", "h">>>>)
FileA == PathOf(<<<<"w">>, <<"a">>>>)
FileC == PathOf(<<<<"w">>, <<"C">>>>)
FileBc == PathOf(<<<<"w">>, <<"B">>, <<"c">>>>)
FileUpperA == PathOf(<<<<"w">>, <<"A">>>>)
DirOutside == PathOf(<<<<"x">>>>)

\* Paths relative to the working directory: w, and in it a and B/w/a
RelW == <<"w">>
RelB == join(RelW, <<"B">>)
RelInner == join(RelB, <<"w">>)

\* The directories the walks are made on: an empty one; one with a hidden
\* and a visible file; one with folders three levels deep, names of both
\* cases, a hidden folder with a file in it, a hidden file and a file
\* whose name is not UTF-8; one with two files whose names differ by the
\* case of a letter only; one seen from the working directory, where the
\* directory w holds a directory B/w.
TreeDisks ==
    { DiskOf({<<DirW, "dir">>}),
      DiskOf({<<RelW, "dir">>, <<join(RelW, <<"a">>), "file">>, <<RelB, "dir">>,
              <<RelInner, "dir">>, <<join(RelInner, <<"a">>), "file">>}),
      DiskOf({<<DirW, "dir">>, <<FileA, "file">>, <<FileUpperA, "file">>}),
      DiskOf({<<DirW, "dir">>, <<FileA, "file">>,
              <<PathOf(<<<<"w">>, <<".", "g">>>>), "file">>}),
      DiskOf({<<DirW, "dir">>, <<DirB, "dir">>, <<FileBc, "file">>, <<DirD, "dir">>,
              <<PathOf(<<<<"w">>, <<"B">>, <<"D">>, <<"e">>>>), "file">>,
              <<DirF, "dir">>,
              <<PathOf(<<<<"w">>, <<"B">>, <<"D">>, <<"F">>, <<"g">>>>), "file">>,
              <<FileA, "file">>, <<FileC, "file">>, <<DirZ, "dir">>,
              <<DirHidden, "dir">>,
              <<PathOf(<<<<"w">>, <<".", "h">>, <<"x">>>>), "file">>,
              <<PathOf(<<<<"w">>, <<".", "g">>>>), "file">>,
              <<PathOf(<<<<"w">>, <<BadByte>>>>), "file">>}) }

\* The roots walked: a directory, a directory below it, a file, nothing,
\* and a directory named relative to the working directory
WalkRoots == {DirW, DirB, FileA, DirOutside, RelW}

\* The bases given with root: the root, the directory /w, a directory
\* below it, a directory the root is not in, and a directory below the
\* relative root
WalkBases(root) == {root, DirW, DirB, DirOutside, RelB}

\* The paths a walk may fail on
FaultPaths == {DirB, DirD, FileA}

TreeInit ==
    /\ WatcherInit
    /\ platform = "unix"
    /\ disk \in TreeDisks
    /\ \E root \in WalkRoots, max_depth \in 0..MaxWalkDepth :
          \E base \in WalkBases(root), failing \in Faults(FaultPaths),
             order \in EnumerationOrders :
             call = [pc |-> "probe", root |-> root, base |-> base,
                     max_depth |-> max_depth, failing |-> failing, order |-> order,
                     result |-> <<>>]

\* read_dir_recursive(root, base, max_depth)
Walk ==
    /\ call.pc = "probe"
    /\ call' = [call EXCEPT !.pc = "walked",
                            !.result = read_dir_recursive(call.root, call.base,
                                                          call.max_depth, call.failing,
                                                          call.order)]
    /\ UNCHANGED <<wvars, platform, disk>>

TreeNext == Walk

TreeSpec == TreeInit /\ [][TreeNext]_vars

----------------------------------------------------------------------------
(* The claims *)

Watching(t) == t \in Tasks /\ tasks[t].attached

Emitted(name, t) == {i \in 1..Len(sink) : sink[i].name = name /\ sink[i].task = t}

Changes == {i \in 1..Len(sink) : sink[i].name = "fs-changed"}

\* C1: whatever the interleaving of watch_workspace, stop_watching and the
\* background threads, at most one thread is inside its event loop with a
\* filesystem monitor attached.
C1_AtMostOneWatching ==
    Cardinality({t \in Tasks : Watching(t)}) <= 1

\* C2: a thread that is watching when watch_workspace is called again
\* eventually leaves its loop and releases its monitor, the thread being
\* scheduled fairly.
C2_SupersededThreadExits ==
    \A t \in 1..MaxTasks :
        (cmd.pc = "sleep" /\ t \in cmd.superseded) ~> ~Watching(t)

\* C3: once stop_watching has returned, every watching thread leaves its loop
\* and releases its monitor, unless watch_workspace is called again first.
C3_StopLeadsToExit ==
    \A t \in 1..MaxTasks :
        (Watching(t) /\ last_call = "stop_watching")
            ~> (~Watching(t) \/ last_call # "stop_watching")

C3_Witness ==
    \E t \in Tasks :
        /\ last_call = "stop_watching"
        /\ tasks[t].pc = "done"
        /\ tasks[t].exit_by = "flag"

\* C4: stop_watching can be called in every state the command thread is free
\* in; after it, until the next watch_workspace, is_watching is false and
\* get_watched_path is None; called with the flag already false it changes
\* nothing of the watcher.
C4_StopIdempotentTotal ==
    /\ [](cmd.pc = "idle" => ENABLED stop_watching)
    /\ [](last_call = "stop_watching" => ~is_watching /\ get_watched_path = None)
    /\ [][stop_watching /\ ~running
            => UNCHANGED <<running, current_path, cmd, tasks, events, sink>>]_vars

C4_Witness ==
    /\ last_call = "stop_watching"
    /\ current_path # None
    /\ \E t \in Tasks : Watching(t)

\* C5: get_watched_path returns a root only while is_watching is true, and
\* then the stored root; with the flag false it returns None, whatever
\* current_path holds.
C5_WatchedPathOnlyWhileWatching ==
    /\ get_watched_path # None => is_watching /\ get_watched_path = current_path
    /\ ~running => get_watched_path = None

C5_Witness ==
    /\ ~running
    /\ current_path # None
    /\ get_watched_path = None

\* C6: a thread whose monitor could not be created or attached has emitted
\* exactly one fs-watcher-error and no fs-changed, never held an attached
\* monitor and never runs again; the step that fails clears the flag and
\* starts no new thread; a thread that attached has emitted no
\* fs-watcher-error.
C6_FatalReportedOnce ==
    /\ [](\A t \in Tasks :
            /\ tasks[t].pc = "failed" =>
                 /\ Cardinality(Emitted("fs-watcher-error", t)) = 1
                 /\ Emitted("fs-changed", t) = {}
                 /\ ~tasks[t].attached
            /\ tasks[t].pc # "failed" => Emitted("fs-watcher-error", t) = {})
    /\ [][\A t \in Tasks :
            /\ tasks[t].pc = "failed" => tasks'[t] = tasks[t]
            /\ (tasks[t].pc # "failed" /\ tasks'[t].pc = "failed") =>
                 /\ ~running'
                 /\ tasks[t].pc \in {"create", "watch"}
                 /\ Len(tasks') # Len(tasks) => cmd.pc = "sleep"]_vars

C6_Witness ==
    \E t \in Tasks :
        /\ tasks[t].pc = "failed"
        /\ Cardinality(Emitted("fs-watcher-error", t)) = 1
        /\ \E u \in Tasks : tasks[u].attached

\* The paths without an ignored substring, and the items that pass the
\* filters of lines 197-214: neither an access nor platform noise, and one
\* of the paths has no ignored substring.
PathNames == {PathDoc, PathGit, PathGitx, PathRaw}

CleanPaths ==
    {p \in PathNames :
        \A i \in 1..Len(IGNORED_PATHS) : ~Contains(to_string_lossy(p), IGNORED_PATHS[i])}

NoIgnoredSubstring(p) == p \in CleanPaths

SurvivingItems ==
    {item \in ChannelItems :
        /\ item.ok
        /\ item.kind \notin {"Access", "Other"}
        /\ \E i \in 1..Len(item.paths) : NoIgnoredSubstring(item.paths[i])}

Surviving(item) == item \in SurvivingItems

\* The strings of the paths of an item that have no ignored substring, in
\* the item's order.
CleanStrings ==
    [item \in ChannelItems |->
        LET kept == SelectSeq(item.paths, NoIgnoredSubstring)
        IN  [k \in 1..Len(kept) |-> to_string_lossy(kept[k])]]

\* The strings of all the paths of an item.
AllStrings ==
    [item \in ChannelItems |-> {to_string_lossy(item.paths[m]) : m \in 1..Len(item.paths)}]

WasEmitted(id) == events[id].outcome \in {"emitted", "emit_failed"}

\* C7: within one session an event that passes the filters is emitted
\* exactly when no fs-changed was emitted by the session less than the
\* debounce window before it, and then once: two emissions are never closer
\* than the window, and the first surviving event after the window emits.
C7_DebounceWindow ==
    \A id \in 1..Len(events) :
        Surviving(events[id].item) =>
            /\ WasEmitted(id) <=>
                 (events[id].quiet = None \/ events[id].quiet[1] >= DEBOUNCE_MS)
            /\ Cardinality({i \in Changes : sink[i].id = id})
                 = IF WasEmitted(id) THEN 1 ELSE 0

C7_Witness ==
    /\ Len(events) = 3
    /\ events[1].outcome = "emitted"
    /\ events[2].outcome = "debounced"
    /\ events[3].outcome = "emitted"
    /\ events[3].quiet = Some(DEBOUNCE_MS)

\* C8: an event suppressed by the debounce window is never reported, then or
\* later; every fs-changed is the report of one received event, made once,
\* and every path of its payload is a path of that event.
C8_LossyDrop ==
    /\ \A id \in 1..Len(events) :
          events[id].outcome = "debounced" => \A i \in Changes : sink[i].id # id
    /\ \A i \in Changes :
          /\ sink[i].id \in 1..Len(events)
          /\ WasEmitted(sink[i].id)
          /\ sink[i].task = events[sink[i].id].task
          /\ \A j \in Changes : sink[j].id = sink[i].id => j = i
          /\ \A k \in 1..Len(sink[i].payload) :
                sink[i].payload[k] \in AllStrings[events[sink[i].id].item]

C8_Witness ==
    /\ Len(events) = 3
    /\ events[1].outcome = "emitted"
    /\ events[2].outcome = "debounced"
    /\ events[2].item.paths # events[3].item.paths
    /\ events[3].outcome = "emitted"
    /\ Cardinality(Changes) = 2

\* C9: no fs-changed is emitted for an access event, a noise event or an
\* event all of whose paths have an ignored substring; the payload of an
\* fs-changed is the event's paths without an ignored substring, as strings,
\* in the event's order, and is not empty.
C9_FilteredPayload ==
    /\ \A id \in 1..Len(events) :
          ~Surviving(events[id].item) => \A i \in Changes : sink[i].id # id
    /\ \A i \in Changes :
          LET item == events[sink[i].id].item
          IN  /\ item.kind \notin {"Access", "Other"}
              /\ sink[i].payload = CleanStrings[item]
              /\ sink[i].payload # <<>>

C9_Witness ==
    /\ \E i \in Changes :
          /\ events[sink[i].id].item.paths = <<PathGit, PathRaw, PathDoc>>
          /\ Len(sink[i].payload) = 2
    /\ \E id \in 1..Len(events) : events[id].outcome = "kind"
    /\ \E id \in 1..Len(events) : events[id].outcome = "ignored"

\* C10: no monitor is attached to a root that validate_path rejects, and no
\* fs-changed is emitted for one.
C10_InvalidRootNeverWatched ==
    \A t \in Tasks :
        ~validate_path(tasks[t].root).ok =>
            /\ ~tasks[t].attached
            /\ Emitted("fs-changed", t) = {}

\* Either separator style.
Separators == {"/", "\\"}

\* p has a ".." component: two dots between separators or the ends of p.
HasParentComponent(p) ==
    \E i \in 1..(Len(p) - 1) :
        /\ p[i] = "." /\ p[i + 1] = "."
        /\ (i = 1 \/ p[i - 1] \in Separators)
        /\ (i + 1 = Len(p) \/ p[i + 2] \in Separators)

Rejected(r) == ~r.ok /\ r.err = "PathValidation" /\ r.path = None

\* C18: validate returns PathValidation, never Ok, for every path that has
\* a ".." component, wherever the component is and whichever separator
\* delimits it.
C18_TraversalRejected ==
    (call.pc = "validated" /\ HasParentComponent(call.path)) => Rejected(call.result)

\* A path validated and rejected whose ".." is its last component, after a
\* backslash.
C18_Witness ==
    /\ call.pc = "validated"
    /\ call.path = <<"a", "\\", ".", ".">>
    /\ Rejected(call.result)

Steps(c) == [i \in 1..Len(c.log) |-> c.log[i].step]

\* Step `step` was made and succeeded.
Succeeded(c, step) == \E i \in 1..Len(c.log) : c.log[i] = [step |-> step, ok |-> TRUE]

\* The step of the call that failed, "none" when none did: the cleanup is
\* not one, its failure is ignored.
FailedStep(c) ==
    LET failed == {i \in 1..Len(c.log) : ~c.log[i].ok /\ c.log[i].step # "cleanup"}
    IN  IF failed = {} THEN "none" ELSE c.log[CHOOSE i \in failed : TRUE].step

\* What is observable at path p of disk d
Observed(d, p) ==
    IF p \notin DOMAIN d THEN <<"absent">>
    ELSE IF d[p].kind = "dir" THEN <<"dir">>
    ELSE <<"file", d[p].data>>

InWrite == call.pc # "idle" /\ call.pc # "probe" /\ call.pc # "validated"
           /\ call.op = "write_text_file"

Returned(op) == call.pc = "returned" /\ call.op = op

\* The order of the steps of write_text_file
WriteOrder ==
    <<"validate", "create_dir_all", "create", "write", "sync", "remove_dest", "rename">>

StepRank(step) ==
    IF step = "cleanup" THEN Len(WriteOrder) + 1
    ELSE CHOOSE i \in 1..Len(WriteOrder) : WriteOrder[i] = step

\* C11: the steps of one write_text_file are made in the order validate,
\* create_dir_all, create, write, sync, (remove_dest), rename, each after
\* the success of the one before; remove_dest and rename are made only
\* after create, write and sync have succeeded.
C11_WriteStepOrder ==
    InWrite =>
        /\ \A i \in 1..Len(call.log), j \in 1..Len(call.log) :
              i < j => /\ StepRank(call.log[i].step) < StepRank(call.log[j].step)
                       /\ call.log[j].step # "cleanup" => call.log[i].ok
        /\ \A i \in 1..Len(call.log) :
              call.log[i].step \in {"remove_dest", "rename"} =>
                  /\ Steps(call)[1] = "validate"
                  /\ \E k \in 1..(i - 3) :
                        /\ SubSeq(Steps(call), k, k + 2) = <<"create", "write", "sync">>
                        /\ \A n \in k..(k + 2) : call.log[n].ok
        /\ \A i \in 1..Len(call.log) :
              call.log[i].step = "remove_dest" => platform = "windows"

\* A write_text_file that has made all seven steps.
C11_Witness ==
    /\ Returned("write_text_file")
    /\ call.result.ok
    /\ Steps(call) = WriteOrder

\* C12: a write_text_file that fails at create, write or sync returns the Io
\* error of that step, leaves at the target what was there at the call, and
\* has attempted the removal of the temporary file, whose failure changes
\* nothing of the result.
C12_FailedWriteLeavesTarget ==
    (Returned("write_text_file") /\ FailedStep(call) \in {"create", "write", "sync"}) =>
        /\ call.result = Err("Io", FailedStep(call))
        /\ Observed(disk, Target(call)) = Observed(call.before, Target(call))
        /\ call.log[Len(call.log)].step = "cleanup"

\* The write failed with part of the bytes written, the removal of the
\* temporary file failed too, and the target is a file.
C12_Witness ==
    /\ Returned("write_text_file")
    /\ FailedStep(call) = "write"
    /\ call.log[Len(call.log)] = [step |-> "cleanup", ok |-> FALSE]
    /\ exists(save_temp_path(Target(call)))
    /\ Observed(disk, Target(call)) = <<"file", OldBytes>>

\* C13: whatever step failed, after write_text_file has returned the target
\* holds what it held at the call or the whole new content.
C13_OldOrNew ==
    Returned("write_text_file") =>
        \/ Observed(disk, Target(call)) = Observed(call.before, Target(call))
        \/ Observed(disk, Target(call)) = <<"file", as_bytes(call.arg)>>

\* C14: after a successful write_text_file(p, c) the target reads as c and
\* the temporary sibling does not exist; when the call before was the same
\* successful call, the disk is what that call left.
C14_WriteIdempotent ==
    (Returned("write_text_file") /\ call.result.ok) =>
        /\ is_file(Target(call))
        /\ from_utf8(disk[Target(call)].data) = Some(call.arg)
        /\ ~exists(save_temp_path(Target(call)))
        /\ (call.prev = Some([op |-> call.op, path |-> call.path, arg |-> call.arg,
                              ok |-> TRUE])
              => disk = call.before)

\* The second of two successful write_text_file calls with the same
\* arguments has returned.
C14_Witness ==
    /\ Returned("write_text_file")
    /\ call.result.ok
    /\ call.prev = Some([op |-> call.op, path |-> call.path, arg |-> call.arg,
                         ok |-> TRUE])
    /\ call.arg = <<"e'">>

StructuredSaves == {"save_workspace", "save_calendar_data"}

\* The type of the argument of a structured save
ArgType(op) == IF op = "save_workspace" THEN TWorkspaceFile ELSE TValue

\* C15: when a structured save is about to rename, its .json.tmp sibling
\* holds the whole serialized text and has been forced to stable storage.
C15_TempSyncedBeforeRename ==
    (call.pc = "rename" /\ call.op \in StructuredSaves) =>
        LET temp == json_temp_path(Target(call))
        IN  /\ is_file(temp)
            /\ disk[temp].data = as_bytes(to_string_pretty(ArgType(call.op), call.arg))
            /\ disk[temp].synced

\* C16: a structured save that has failed at the write of the temporary
\* file or at the rename has attempted to remove the .json.tmp file, and
\* none remains.
C16_FailedSaveCleansTemp ==
    (call.pc = "returned" /\ call.op \in StructuredSaves
       /\ FailedStep(call) \in {"write", "rename"}) =>
        /\ "cleanup" \in {call.log[i].step : i \in 1..Len(call.log)}
        /\ ~exists(json_temp_path(Target(call)))

\* The load that reads what a save writes
LoadOf(op) == IF op = "load_workspace" THEN "save_workspace" ELSE "save_calendar_data"

\* The call before this one was a successful structured save to the place
\* this call loads from.
LoadsAfterSave ==
    /\ call.pc = "returned"
    /\ call.op \in {"load_workspace", "read_calendar_data"}
    /\ call.prev # None
    /\ call.prev[1].op = LoadOf(call.op)
    /\ call.prev[1].path = call.path
    /\ call.prev[1].ok

FileCommands ==
    {"read_text_file", "write_text_file", "load_workspace", "save_workspace",
     "read_calendar_data", "save_calendar_data", "build_tree"}

\* C20: a command called with a path validate_path rejects returns
\* PathValidation at once: the validation is its only step, and the disk
\* is as it was at the call.
C20_RejectedBeforeIo ==
    (call.pc # "idle" /\ call.op \in FileCommands /\ ~validate(Target(call)).ok) =>
        /\ call.pc = "returned"
        /\ call.result = Err("PathValidation", "validate")
        /\ call.log = <<[step |-> "validate", ok |-> FALSE]>>
        /\ disk = call.before

\* A write_text_file with a path that holds `..` has returned, on a disk
\* where the path it would write to is absent and its parent exists.
C20_Witness ==
    /\ Returned("write_text_file")
    /\ call.path = FileEscape
    /\ call.result = Err("PathValidation", "validate")
    /\ ~exists(Target(call))
    /\ exists(Bytes(RootW))

Readers == {"read_text_file", "load_workspace"}

\* A reading command has returned for a path validate_path accepts.
ReadReturned == call.pc = "returned" /\ call.op \in Readers /\ validate(Target(call)).ok

\* C21: read_text_file and load_workspace, for a path validate_path
\* accepts, return FileNotFound when nothing is at the path and
\* InvalidPathType when a directory is; the existence is tested before the
\* type and the type before the read, and a value is returned only for a
\* file.
C21_ReadChecksOrdered ==
    ReadReturned =>
        /\ ~exists(Target(call)) =>
              /\ call.result = Err("FileNotFound", "exists")
              /\ Steps(call) = <<"validate", "exists">>
        /\ is_dir(Target(call)) =>
              /\ call.result = Err("InvalidPathType", "is_file")
              /\ Steps(call) = <<"validate", "exists", "is_file">>
        /\ is_file(Target(call)) =>
              /\ SubSeq(Steps(call), 1, 4) = <<"validate", "exists", "is_file", "read">>
              /\ call.result.ok \/ call.result.err \in {"Io", "Serialization"}
        /\ call.result.ok => is_file(Target(call))

\* A read_text_file of a directory has returned InvalidPathType.
C21_Witness ==
    /\ ReadReturned
    /\ call.op = "read_text_file"
    /\ is_dir(Target(call))
    /\ call.result.err = "InvalidPathType"

\* C22: build_tree, for a root validate_path accepts, returns FileNotFound
\* when nothing is at the root and InvalidPathType when a file is, and the
\* nodes only when a directory is.
C22_RootErrorsDistinct ==
    (Returned("build_tree") /\ validate(Target(call)).ok) =>
        /\ ~exists(Target(call)) => call.result.err = "FileNotFound"
        /\ is_file(Target(call)) => call.result.err = "InvalidPathType"
        /\ call.result.ok => is_dir(Target(call))

\* The fields of a Node
NodeId(n) == n[1]
NodeName(n) == n[2]
NodeKind(n) == n[3]
NodePath(n) == n[4]
NodeChildren(n) == n[5]
NodeMeta(n) == n[6]

\* The children of a node as a sequence, empty when it has none
ChildrenOf(n) == IF NodeChildren(n) = None THEN <<>> ELSE NodeChildren(n)[1]

\* The sequences of siblings of a tree: its top level and every children
\* list
RECURSIVE Levels(_)
Levels(nodes) == {nodes} \cup UNION {Levels(ChildrenOf(nodes[i])) : i \in 1..Len(nodes)}

\* A walk has returned.
Walked == call.pc = "walked"

\* C23: at every level of the tree a walk returns, the Folder nodes come
\* before the File nodes, and within each group the lower-cased names do
\* not decrease.
C23_FoldersFirstSorted ==
    Walked =>
        \A level \in Levels(call.result) :
            \A i, j \in 1..Len(level) :
                i < j =>
                    /\ NodeKind(level[i]) = "File" => NodeKind(level[j]) = "File"
                    /\ NodeKind(level[i]) = NodeKind(level[j]) =>
                          ~KeyLess(to_lowercase(NodeName(level[j])),
                                   to_lowercase(NodeName(level[i])))

\* A walk has returned a level where folder z stands before file a, and
\* file a before file C.
C23_Witness ==
    /\ Walked
    /\ \E i, j, k \in 1..Len(call.result) :
          /\ i < j /\ j < k
          /\ NodeKind(call.result[i]) = "Folder" /\ NodeName(call.result[i]) = <<"z">>
          /\ NodeKind(call.result[j]) = "File" /\ NodeName(call.result[j]) = <<"a">>
          /\ NodeKind(call.result[k]) = "File" /\ NodeName(call.result[k]) = <<"C">>

\* The nodes of a tree, each with the path it stands for when the tree is
\* the one of directory dir
RECURSIVE Placed(_, _)
Placed(nodes, dir) ==
    UNION {{<<join(dir, NodeName(nodes[i])), nodes[i]>>}
           \cup Placed(ChildrenOf(nodes[i]), join(dir, NodeName(nodes[i])))
           : i \in 1..Len(nodes)}

\* The number of nodes of a tree
RECURSIVE Size(_)
Size(nodes) ==
    IF nodes = <<>> THEN 0
    ELSE 1 + Size(ChildrenOf(Head(nodes))) + Size(Tail(nodes))

\* The paths from below root down to p, p included; empty when p is not
\* below root
Chain(p, root) ==
    IF Len(p) > Len(root) + 1 /\ SubSeq(p, 1, Len(root)) = root /\ p[Len(root) + 1] = "/"
    THEN {SubSeq(p, 1, k) : k \in {i \in (Len(root) + 2)..Len(p) : i = Len(p) \/ p[i + 1] = "/"}}
    ELSE {}

\* The name of an entry can be shown: it is UTF-8 and has no leading dot.
Shown(q) ==
    LET name == SubSeq(q, LastSep(q) + 1, Len(q))
    IN  /\ \A i \in 1..Len(name) : name[i] # BadByte
        /\ name[1] # "."

\* The entries a walk of root with budget d should list: those at most d
\* levels below root, reached through directories that can be read and
\* entries that can be read and shown
Listed(root, d, failing) ==
    {p \in DOMAIN disk :
        /\ is_dir(root) /\ root \notin failing.read_dir
        /\ Chain(p, root) # {}
        /\ Cardinality(Chain(p, root)) <= d
        /\ \A q \in Chain(p, root) :
              /\ q \notin failing.entry
              /\ Shown(q)
              /\ q # p => (is_dir(q) /\ q \notin failing.read_dir)}

\* C24: no node of the tree a walk returns has a name with a leading dot,
\* nothing below a hidden directory is listed, and every entry that can
\* be read and shown within the depth limit is listed exactly once.
C24_HiddenSkippedOthersOnce ==
    Walked =>
        LET placed == Placed(call.result, call.root)
        IN  /\ \A pn \in placed : NodeName(pn[2])[1] # "."
            /\ {pn[1] : pn \in placed} = Listed(call.root, call.max_depth, call.failing)
            /\ Size(call.result) = Cardinality(Listed(call.root, call.max_depth, call.failing))

\* A walk of a directory that holds a hidden file, a hidden folder with a
\* file in it and a file with a name that is not UTF-8 has returned six
\* nodes or more.
C24_Witness ==
    /\ Walked
    /\ call.root = DirW
    /\ DirHidden \in DOMAIN disk
    /\ Size(call.result) >= 6

\* The nesting depth of a tree: 0 for the empty sequence
RECURSIVE Height(_)
Height(nodes) ==
    IF nodes = <<>> THEN 0
    ELSE LET h == Height(ChildrenOf(Head(nodes))) + 1
             r == Height(Tail(nodes))
         IN  IF h > r THEN h ELSE r

\* The folders at the last level a budget allows have an empty children
\* list.
RECURSIVE LastLevelEmpty(_, _)
LastLevelEmpty(nodes, budget) ==
    \A i \in 1..Len(nodes) :
        NodeKind(nodes[i]) = "Folder" =>
            IF budget = 1 THEN NodeChildren(nodes[i]) = Some(<<>>)
            ELSE LastLevelEmpty(ChildrenOf(nodes[i]), budget - 1)

\* C25: the tree a walk with budget max_depth returns is at most max_depth
\* levels deep; with budget 0 it is empty; a folder at the last level
\* allowed is a Folder node with an empty children list.
C25_DepthBounded ==
    Walked =>
        /\ Height(call.result) <= call.max_depth
        /\ call.max_depth = 0 => call.result = <<>>
        /\ call.max_depth > 0 => LastLevelEmpty(call.result, call.max_depth)

\* A walk with budget 2 of a directory three levels deep has returned
\* folder D, which holds a file and a folder, with an empty children list.
C25_Witness ==
    /\ Walked
    /\ call.max_depth = 2
    /\ DirF \in DOMAIN disk
    /\ Height(call.result) = 2
    /\ \E pn \in Placed(call.result, call.root) :
          pn[1] = DirD /\ NodeKind(pn[2]) = "Folder" /\ NodeChildren(pn[2]) = Some(<<>>)

\* p is base or lies below it.
Under(p, base) ==
    \/ p = base
    \/ Len(p) > Len(base) + 1 /\ SubSeq(p, 1, Len(base)) = base /\ p[Len(base) + 1] = "/"

\* The path of p relative to base, for a p under base
RelativeTo(p, base) == IF p = base THEN <<>> ELSE SubSeq(p, Len(base) + 2, Len(p))

\* The shape of a node: a path for a File only, children for a Folder
\* only, no meta, and for a File the path is the id.
WellFormed(n) ==
    /\ NodePath(n) # None <=> NodeKind(n) = "File"
    /\ NodeChildren(n) # None <=> NodeKind(n) = "Folder"
    /\ NodeMeta(n) = None
    /\ NodeKind(n) = "File" => NodePath(n) = Some(NodeId(n))

\* C26 as stated: every node of the tree a walk returns has a path iff it
\* is a File, children iff it is a Folder, no meta, and an id that is the
\* path of its entry relative to base.
C26_NodeShapeRelativeId ==
    Walked =>
        \A pn \in Placed(call.result, call.root) :
            /\ WellFormed(pn[2])
            /\ Under(pn[1], call.base)
            /\ NodeId(pn[2]) = RelativeTo(pn[1], call.base)

\* C26: every node of the tree a walk returns has a path iff it is a
\* File, children iff it is a Folder, no meta, and an id that is the path
\* of its entry relative to base when the entry is under base, and the
\* full path of the entry when it is not.
C26_NodeShape ==
    Walked =>
        \A pn \in Placed(call.result, call.root) :
            /\ WellFormed(pn[2])
            /\ NodeId(pn[2]) = IF Under(pn[1], call.base)
                               THEN RelativeTo(pn[1], call.base)
                               ELSE pn[1]

\* A walk has returned a tree with a File and a Folder under base, and a
\* walk has returned a File that is not under base.
C26_Witness ==
    /\ Walked
    /\ \E pn \in Placed(call.result, call.root) : NodeKind(pn[2]) = "File"
    /\ \E pn \in Placed(call.result, call.root) : NodeKind(pn[2]) = "Folder"
    /\ \E pn \in Placed(call.result, call.root) : ~Under(pn[1], call.base)
    /\ \E pn \in Placed(call.result, call.root) :
          Under(pn[1], call.base) /\ pn[1] # call.base

\* C27: a walk of a directory that can be read returns every entry of it
\* that can be read and shown, whatever happens to the other entries, and
\* a directory listed that cannot be read itself is a Folder node with an
\* empty children list.
C27_WalkSurvivesFailures ==
    (Walked /\ is_dir(call.root) /\ call.root \notin call.failing.read_dir
       /\ call.max_depth >= 1) =>
        LET placed == Placed(call.result, call.root)
        IN  /\ \A q \in Entries(call.root) :
                  (q \notin call.failing.entry /\ Shown(q)) =>
                      \E pn \in placed : pn[1] = q
            /\ \A p \in Listed(call.root, call.max_depth, call.failing) :
                  (is_dir(p) /\ p \in call.failing.read_dir) =>
                      \E pn \in placed :
                          /\ pn[1] = p
                          /\ NodeKind(pn[2]) = "Folder"
                          /\ NodeChildren(pn[2]) = Some(<<>>)

\* A walk of /w where the entry of file a is an error, a file has a name
\* that is not UTF-8 and folder B cannot be read has returned file C and
\* folder B, without children.
C27_Witness ==
    /\ Walked
    /\ call.root = DirW
    /\ call.max_depth >= 2
    /\ FileA \in call.failing.entry
    /\ DirB \in call.failing.read_dir
    /\ PathOf(<<<<"w">>, <<BadByte>>>>) \in DOMAIN disk
    /\ \E pn \in Placed(call.result, call.root) : pn[1] = FileC
    /\ \E pn \in Placed(call.result, call.root) :
          pn[1] = DirB /\ NodeChildren(pn[2]) = Some(<<>>)
    /\ \A pn \in Placed(call.result, call.root) : pn[1] # FileA

\* The place of the workspace file of a root, as text
WorkspaceLocation(root) ==
    root \o <<"/", ".", "h", "i", "b", "i", "s", "c", "u", "s", "/",
              "w", "o", "r", "k", "s", "p", "a", "c", "e", ".", "j", "s", "o", "n">>

\* C28: discover_workspace(root) returns found = true and the path
\* <root>/.hibiscus/workspace.json when a file is at that place, and
\* found = false and no path when nothing or a directory is; its only
\* step is the test of the place, and the disk is as it was.
C28_DiscoverIsFileTest ==
    Returned("discover_workspace") =>
        LET place == WorkspaceLocation(Bytes(call.path))
        IN  /\ is_file(place) =>
                  call.result = Ok([found |-> TRUE, path |-> Some(place)])
            /\ ~is_file(place) =>
                  call.result = Ok([found |-> FALSE, path |-> None])
            /\ Steps(call) = <<"is_file">>
            /\ disk = call.before

\* A discovery has returned found = false for a directory at the place
\* of the workspace file.
C28_Witness ==
    /\ Returned("discover_workspace")
    /\ is_dir(WorkspaceLocation(Bytes(call.path)))
    /\ call.result.value[1].found = FALSE

\* The events thread t has received whose fs-changed was delivered
Delivered(t) ==
    {i \in 1..Len(events) : events[i].task = t /\ events[i].outcome = "emitted"}

\* C29: last_emit is moved only by a delivered fs-changed: a thread in its
\* loop that has delivered none still has the last_emit it started with,
\* and no event is suppressed by the debounce window before the first
\* delivery.
C29_TimestampOnlyOnSuccess ==
    \A t \in Tasks :
        /\ (tasks[t].attached /\ Delivered(t) = {}) =>
              tasks[t].elapsed = Saturated(INITIAL_BACKDATE_MS)
        /\ \A i \in 1..Len(events) :
              (events[i].task = t /\ events[i].outcome = "debounced") =>
                  \E j \in Delivered(t) : j < i

\* Thread t is in its event loop.
InLoop(t) == tasks[t].pc \in {"check", "recv"}

\* C30: a thread leaves its event loop only at a loop check that reads the
\* flag as false or at a disconnection of its channel; an item received
\* (an event, delivered or not, or an error of the backend) and a timeout
\* send it back to the loop check and leave the flag as it is; a thread
\* is started only by a watch_workspace call.
C30_LoopExitsOnlyByFlagOrDisconnect ==
    [][\A t \in Tasks :
          /\ (InLoop(t) /\ tasks'[t].pc = "done") =>
                \/ tasks[t].pc = "check" /\ ~running /\ tasks'[t].exit_by = "flag"
                \/ tasks[t].pc = "recv" /\ tasks'[t].exit_by = "disconnected"
          /\ (tasks[t].pc = "recv" /\ tasks'[t].pc # "recv" /\ tasks'[t].pc # "done") =>
                /\ tasks'[t].pc = "check"
                /\ running' = running
          /\ (Len(events') > Len(events) /\ events'[Len(events')].task = t) =>
                /\ tasks'[t].pc = "check"
                /\ running' = running
          /\ Len(tasks') # Len(tasks) => cmd.pc = "sleep"]_vars

\* A thread has received an error of its backend, then an event whose
\* emit failed, then an event that was delivered, and is in its loop with
\* the flag set.
C30_Witness ==
    /\ Len(events) = 3
    /\ events[1].outcome = "error"
    /\ events[2].outcome = "emit_failed"
    /\ events[3].outcome = "emitted"
    /\ InLoop(1)
    /\ running

\* Thread t is starting (creating or attaching its monitor) or is in its
\* event loop.
Alive(t) == tasks[t].pc \in {"create", "watch", "check", "recv"}

\* C31: whenever is_watching returns true, a thread for the root
\* get_watched_path returns is starting or is in its event loop.
C31_WatchingMeansLiveTask ==
    is_watching =>
        \E t \in Tasks : Alive(t) /\ get_watched_path = Some(tasks[t].root)

\* C32: while the thread of the last watch_workspace is starting or in its
\* loop, and no stop_watching was called since, the flag is set: the
\* failure of an older thread does not clear it.
C32_SupersededFailureKeepsFlag ==
    (cmd.pc = "idle" /\ last_call = "watch_workspace" /\ tasks # <<>>
       /\ Alive(Len(tasks))) => running

\* The items received after a stop_watching returned and before the next
\* watch_workspace, n threads having been spawned until then.
AfterStop(n) ==
    {i \in 1..Len(events) :
        events[i].after = "stop_watching" /\ events[i].started = n}

\* C33: after stop_watching returns and until the next watch_workspace,
\* each thread receives at most one further item, and at most one
\* fs-changed is emitted.
C33_OneEventAfterStop ==
    \A n \in 0..MaxTasks :
        /\ \A t \in Tasks :
             Cardinality({i \in AfterStop(n) : events[i].task = t}) <= 1
        /\ Cardinality({i \in AfterStop(n) : events[i].outcome = "emitted"}) <= 1

\* The part of C33 that is about one thread.
C33_OneEventPerThread ==
    \A n \in 0..MaxTasks, t \in Tasks :
        Cardinality({i \in AfterStop(n) : events[i].task = t}) <= 1

\* What the target holds when it holds all of the contents of writer i.
Whole(i) == <<"file", as_bytes(call.w[i].arg)>>

\* Both calls have returned, one of them with Ok, and no step before a
\* rename has failed.
BothReturned ==
    /\ \A i \in Writers : call.w[i].pc = "returned"
    /\ \E i \in Writers : call.w[i].result.ok
    /\ \A i \in Writers : FailedStep(call.w[i]) \in {"none", "rename"}

\* C34: with two write_text_file calls in flight on one path, on the build
\* that renames over the target (no delete before the rename), the target
\* is only ever observed as it was before the calls, or holding all of the
\* contents of one call; once both calls have returned it holds all of the
\* contents of one call.
C34_ConcurrentWritesWhole ==
    (call.pc = "pair" /\ platform = "unix") =>
        LET seen == Observed(disk, Target(call))
        IN  /\ seen \in {Observed(call.before, Target(call)), Whole(1), Whole(2)}
            /\ BothReturned => seen \in {Whole(1), Whole(2)}

\* The second half of C34 alone: the target after both calls returned.
C34_FinalWhole ==
    (call.pc = "pair" /\ platform = "unix" /\ BothReturned)
    => Observed(disk, Target(call)) \in {Whole(1), Whole(2)}

\* C35 as stated: every path with no ".." component and at most
\* MAX_PATH_DEPTH components is accepted, a name that merely contains two
\* consecutive dots included.
C35_RejectsOnlyParentComponentOrDepth ==
    (call.pc = "validated" /\ ~HasParentComponent(call.path)
       /\ ComponentCount(call.path) <= MAX_PATH_DEPTH) => call.result.ok

\* C35 amended: validate rejects a path exactly when its text contains ".."
\* (as a component or inside a name) or it has more than MAX_PATH_DEPTH
\* components, and accepts every other path unchanged.
C35_RejectsOnlyTextOrDepth ==
    call.pc = "validated" =>
        IF Contains(call.path, <<".", ".">>) \/ ComponentCount(call.path) > MAX_PATH_DEPTH
        THEN Rejected(call.result)
        ELSE call.result.ok /\ call.result.path = Some(call.path)

\* A single name with two consecutive dots inside, no ".." component,
\* validated and rejected.
C35_Witness ==
    /\ call.pc = "validated"
    /\ call.path = <<"a", ".", ".", "a">>
    /\ ~HasParentComponent(call.path)
    /\ ComponentCount(call.path) = 1
    /\ Rejected(call.result)

\* C36: the sequence a walk returns is the one every enumeration order of
\* the same directories gives, also when two sibling names differ by the
\* case of a letter only.
C36_OrderIndependent ==
    Walked =>
        \A order \in EnumerationOrders :
            read_dir_recursive(call.root, call.base, call.max_depth, call.failing,
                               order) = call.result

\* C36 where no two siblings have the same lowercase name.
C36_OrderIndependentDistinctNames ==
    (Walked /\ \A p, q \in DOMAIN disk :
                  (p # q /\ parent(p) = parent(q) /\ file_name(p) # None
                     /\ file_name(q) # None)
                  => to_lowercase(file_name(p)[1]) # to_lowercase(file_name(q)[1]))
    => \A order \in EnumerationOrders :
            read_dir_recursive(call.root, call.base, call.max_depth, call.failing,
                               order) = call.result

\* The ids of the nodes of a tree, at every level
RECURSIVE Ids(_)
Ids(nodes) ==
    UNION {{NodeId(nodes[i])} \cup Ids(ChildrenOf(nodes[i])) : i \in 1..Len(nodes)}

\* C37: no two nodes of the tree a walk returns, at whatever levels, have
\* the same id, the nodes whose id is the full path of an entry outside
\* base included.
C37_IdsUnique ==
    Walked => Cardinality(Ids(call.result)) = Size(call.result)

\* C37 for the walks of an absolute root.
C37_IdsUniqueAbsoluteRoot ==
    (Walked /\ Head(call.root) = "/") =>
        Cardinality(Ids(call.result)) = Size(call.result)

\* C37 for the walks build_tree makes, where base is root.
C37_IdsUniqueBaseIsRoot ==
    (Walked /\ call.base = call.root) =>
        Cardinality(Ids(call.result)) = Size(call.result)

\* A read_calendar_data has returned, and there was nothing at the place
\* of the calendar when it was called.
ReadAbsentCalendar ==
    /\ Returned("read_calendar_data")
    /\ Target(call) \notin DOMAIN call.before

\* The default calendar was returned and the disk is as it was at the
\* call.
DefaultReturned ==
    /\ call.result = Ok(De(TValue, DefaultCalendar).val)
    /\ disk = call.before

\* C38 as stated: whenever <root>/.hibiscus/calendar.json does not exist,
\* read_calendar_data returns Ok with the default calendar, never an error,
\* and creates nothing.
C38_AbsentCalendarDefault == ReadAbsentCalendar => DefaultReturned

\* C38 amended: whenever the path <root>/.hibiscus/calendar.json passes
\* validate_path and does not exist, read_calendar_data returns Ok with the
\* default calendar and creates nothing; when the path is rejected it
\* returns PathValidation and creates nothing.
C38_AbsentValidCalendarDefault ==
    ReadAbsentCalendar =>
        IF validate(Target(call)).ok
        THEN DefaultReturned
        ELSE call.result = Err("PathValidation", "validate") /\ disk = call.before

\* A read of the calendar of /w, which has none: the default is returned.
C38_Witness ==
    /\ ReadAbsentCalendar
    /\ call.path = RootW
    /\ validate(Target(call)).ok
    /\ DefaultReturned
    /\ Steps(call) = <<"validate", "exists">>

====
